---- MODULE Spec2Model ----
(***************************************************************************)
(* A model of the resilience core of price-compare-pro:                    *)
(*   - CircuitBreaker  (apps/api/src/middleware/circuit-breaker.ts)        *)
(*   - RateLimiter     (apps/api/src/app/api/search/route.ts)              *)
(*   - retry           (apps/api/src/services/retry-mechanism.ts)          *)
(*   - provider services and aggregatorService.searchAll, with the GET     *)
(*     handler that calls it (apps/api/src/services/providers/*.ts,        *)
(*     apps/api/src/services/aggregator.ts, search/route.ts)               *)
(*   - CacheService, the Redis cacheService and its search keys, the       *)
(*     GET and POST handlers of /api/search, the middleware stack and the  *)
(*     EventEmitter                                                        *)
(* Each component has its own specification (SpecBreaker, SpecLimiter,     *)
(* SpecRetry, SpecAggregator, ...) over the shared initial state.          *)
(*                                                                         *)
(* Time is the value Date.now() returns, in milliseconds, counted from the *)
(* moment the objects are constructed.  Token counts are JavaScript        *)
(* numbers in the source; the model keeps them exactly, as integers in     *)
(* units of 1/refillInterval token (TokenUnit), so that                    *)
(* (timePassed / refillInterval) * refillRate is timePassed * refillRate   *)
(* units.  Rounding of IEEE doubles is not modelled.                       *)
(***************************************************************************)
EXTENDS Integers, Sequences, FiniteSets, TLC

\* ---------------------------------------------------------------------
\* Program constants
\* ---------------------------------------------------------------------
failureThreshold == 5
successThreshold == 2
timeout == 60000

capacity == 100
refillRate == 10
refillInterval == 1000

\* retry(): the values used for options that are missing (or falsy)
defaultMaxAttempts == 3
defaultDelay == 1000
defaultBackoff == 1

\* ---------------------------------------------------------------------
\* Bounds of the model
\* ---------------------------------------------------------------------
\* recordFailure is explored while the failure counter is below this cap
MaxFailures == 7
\* the breaker's clock runs up to MaxTimeouts * timeout
MaxTimeouts == 4
\* number of execute() calls that may be in flight together
NumCalls == 2
\* the limiter's clock runs up to MaxTicks * RefillStep
MaxTicks == 3
\* requests explored for the bystander client during one lifetime of its bucket
MaxBystander == 3
\* retry() is explored for options.maxAttempts up to this value
MaxSupplied == 3
\* searchAll() is explored for provider lists up to this length
MaxProviders == 2
\* the cache is explored for this many seconds
MaxSeconds == 3
\* the emitter is explored with up to this many handlers
MaxHandlers == 3

\* the breaker's clock advances by one cool-down at a time
TimeStep == timeout
\* the limiter's clock advances by half the time one token takes to refill
RefillStep == refillInterval \div (2 * refillRate)
\* one token, in the model's token units
TokenUnit == refillInterval

Calls == 1..NumCalls
\* c1 is the client under study; c2 is a bystander whose bucket must stay as it is
Clients == {"c1", "c2"}
Bystander == "c2"
NoBucket == [tokens |-> -1, lastRefillTime |-> -1]
NoRetry == [called |-> FALSE, key |-> "", value |-> 0]

VARIABLES
    now,        \* Date.now()
    state,      \* CircuitBreaker.state
    calls,      \* the execute() calls in flight: where each stands
    last,       \* the breaker operation that ran last: what it saw and returned
    run,        \* failures recorded since the breaker was last CLOSED with
                \* failures = 0, no success recorded since; -1 once one was
    hoSucc,     \* successes recorded in the current (or last) HALF_OPEN period
    buckets,    \* RateLimiter.buckets
    created,    \* per client: when its bucket was created (-1: no bucket)
    granted,    \* per client: allowRequest calls that returned true since then
    drained,    \* per client: capacity calls were granted at the creation instant
    retryAfter, \* what getRetryAfter returned, if the last limiter step called it
    rt,         \* one retry() call: its options, its locals and what it has done
    agg,        \* one searchAll() call: how each provider's search settled, what
                \* the call gave, and what the GET handler answered if it made the call
    pq,         \* one quote's unit arithmetic: the inputs and what the two functions gave
    cs,         \* CacheService: its Map, what the last call returned, one getOrSet call
    ck,         \* the cache keys of two validated search requests, and a lookup
    srv,        \* the search route: what Redis holds and where each request stands
    mw,         \* the middleware stack: where each request stands and who answered it
    em          \* EventEmitter: the listeners of one event and one emit() call


vars == <<now, state, calls, last, run, hoSucc, buckets, created, granted, drained, retryAfter,
          rt, agg, pq, cs, ck, srv, mw, em>>
breakerVars == <<state, calls, last, run, hoSucc>>
limiterVars == <<buckets, created, granted, drained, retryAfter>>
retryVars == <<rt>>
aggregatorVars == <<agg>>
quoteVars == <<pq>>
cacheVars == <<cs>>
keyVars == <<ck>>
searchVars == <<srv>>
middlewareVars == <<mw>>
emitterVars == <<em>>
\* what the steps of one component leave alone
exceptBreaker == <<limiterVars, retryVars, aggregatorVars, quoteVars, cacheVars, keyVars, searchVars, middlewareVars, emitterVars>>
exceptLimiter == <<breakerVars, retryVars, aggregatorVars, quoteVars, cacheVars, keyVars, searchVars, middlewareVars, emitterVars>>
exceptRetry == <<now, breakerVars, limiterVars, aggregatorVars, quoteVars, cacheVars, keyVars, searchVars, middlewareVars, emitterVars>>
exceptAggregator == <<now, breakerVars, limiterVars, retryVars, quoteVars, cacheVars, keyVars, searchVars, middlewareVars, emitterVars>>
exceptQuote == <<now, breakerVars, limiterVars, retryVars, aggregatorVars, cacheVars, keyVars, searchVars, middlewareVars, emitterVars>>
exceptCache == <<breakerVars, limiterVars, retryVars, aggregatorVars, quoteVars, keyVars, searchVars, middlewareVars, emitterVars>>
exceptKey == <<now, breakerVars, limiterVars, retryVars, aggregatorVars, quoteVars, cacheVars, searchVars, middlewareVars, emitterVars>>
exceptSearch == <<now, breakerVars, limiterVars, retryVars, aggregatorVars, quoteVars, cacheVars, keyVars, middlewareVars, emitterVars>>
exceptMiddleware == <<limiterVars, retryVars, aggregatorVars, quoteVars, cacheVars, keyVars, searchVars, emitterVars>>
exceptEmitter == <<now, breakerVars, limiterVars, retryVars, aggregatorVars, quoteVars, cacheVars, keyVars, searchVars, middlewareVars>>

\* ---------------------------------------------------------------------
\* CircuitBreaker
\* ---------------------------------------------------------------------
InitialState == [status |-> "CLOSED", failures |-> 0, lastFailureTime |-> 0, successCount |-> 0]

open(s, t) == [s EXCEPT !.status = "OPEN", !.lastFailureTime = t]

\* faulty variant: the half-open success counter survives into the next period
halfOpen_KeepCount(s) == [s EXCEPT !.status = "HALF_OPEN"]

halfOpen(s) == [s EXCEPT !.status = "HALF_OPEN", !.successCount = 0]

\* faulty variant: closing keeps the failure counter
close_KeepFailures(s) == [s EXCEPT !.status = "CLOSED", !.successCount = 0]

close(s) == [s EXCEPT !.status = "CLOSED", !.failures = 0, !.successCount = 0]

\* faulty variant: the cool-down counts as elapsed at exactly `timeout`
isOpen_Eager(s, t) ==
    IF s.status = "OPEN"
    THEN IF t - s.lastFailureTime >= timeout
         THEN [ret |-> FALSE, state |-> halfOpen(s)]
         ELSE [ret |-> TRUE, state |-> s]
    ELSE [ret |-> FALSE, state |-> s]

\* faulty variant: a breaker that is not OPEN is reported open
isOpen_Inverted(s, t) ==
    IF s.status = "OPEN"
    THEN IF t - s.lastFailureTime > timeout
         THEN [ret |-> FALSE, state |-> halfOpen(s)]
         ELSE [ret |-> TRUE, state |-> s]
    ELSE [ret |-> TRUE, state |-> s]

\* faulty variant: an OPEN breaker is reported open whatever time has passed
isOpen_StaysOpen(s, t) ==
    IF s.status = "OPEN"
    THEN [ret |-> TRUE, state |-> s]
    ELSE [ret |-> FALSE, state |-> s]

\* isOpen() at time t: the value it returns and the state it leaves
isOpen(s, t) ==
    IF s.status = "OPEN"
    THEN IF t - s.lastFailureTime > timeout
         THEN [ret |-> FALSE, state |-> halfOpen(s)]
         ELSE [ret |-> TRUE, state |-> s]
    ELSE [ret |-> FALSE, state |-> s]

\* faulty variant: the breaker closes one success late
recordSuccess_Late(s) ==
    IF s.status = "HALF_OPEN"
    THEN LET s1 == [s EXCEPT !.successCount = @ + 1]
         IN  IF s1.successCount > successThreshold THEN close(s1) ELSE s1
    ELSE IF s.status = "CLOSED"
         THEN [s EXCEPT !.failures = 0]
         ELSE s

\* faulty variant: a success while CLOSED leaves the failure counter alone
recordSuccess_NoReset(s) ==
    IF s.status = "HALF_OPEN"
    THEN LET s1 == [s EXCEPT !.successCount = @ + 1]
         IN  IF s1.successCount >= successThreshold THEN close(s1) ELSE s1
    ELSE s

recordSuccess(s) ==
    IF s.status = "HALF_OPEN"
    THEN LET s1 == [s EXCEPT !.successCount = @ + 1]
         IN  IF s1.successCount >= successThreshold THEN close(s1) ELSE s1
    ELSE IF s.status = "CLOSED"
         THEN [s EXCEPT !.failures = 0]
         ELSE s

\* faulty variant: the breaker opens one failure late
recordFailure_Late(s, t) ==
    LET s1 == [s EXCEPT !.failures = @ + 1, !.lastFailureTime = t]
    IN  IF s1.failures > failureThreshold THEN open(s1, t) ELSE s1

recordFailure(s, t) ==
    LET s1 == [s EXCEPT !.failures = @ + 1, !.lastFailureTime = t]
    IN  IF s1.failures >= failureThreshold THEN open(s1, t) ELSE s1

\* faulty variant: the failure is recorded again when the fallback is run
recorded_Twice(ok, fallback) ==
    IF ok THEN <<"S">> ELSE IF fallback THEN <<"F", "F">> ELSE <<"F">>

\* the outcomes execute() records once fn() has settled: "S" is a call of
\* recordSuccess (the try block), "F" a call of recordFailure (the catch
\* block); the fallback runs after the recording and records nothing
recorded(ok, fallback) == IF ok THEN <<"S">> ELSE <<"F">>

RECURSIVE apply(_, _, _)
apply(s, outcomes, t) ==
    IF outcomes = <<>> THEN s
    ELSE apply(IF Head(outcomes) = "S" THEN recordSuccess(s) ELSE recordFailure(s, t),
               Tail(outcomes), t)

\* what execute() resolves or rejects with once fn() has settled
settled(ok, fallback, fbOk) ==
    IF ok THEN "value"
    ELSE IF fallback THEN (IF fbOk THEN "fallbackValue" ELSE "fallbackError")
    ELSE "fnError"

\* faulty variant: the short circuit ignores the fallback
shortCircuit_NoFallback(fallback, fbOk) == "CircuitOpenError"

\* what execute() resolves or rejects with when the breaker reports open
shortCircuit(fallback, fbOk) ==
    IF fallback THEN (IF fbOk THEN "fallbackValue" ELSE "fallbackError")
    ELSE "CircuitOpenError"

IdleCall == [pc |-> "idle", fallback |-> FALSE, admitted |-> "none"]

NoOp == [op |-> "init", call |-> 0, pre |-> InitialState, ret |-> FALSE, fallback |-> FALSE,
         invoked |-> FALSE, recorded |-> <<>>, result |-> "none"]

\* the history counters after an operation that recorded `outcomes`
RECURSIVE runAfter(_, _)
runAfter(r, outcomes) ==
    IF outcomes = <<>> THEN r
    ELSE runAfter(IF Head(outcomes) = "S" THEN -1 ELSE IF r >= 0 THEN r + 1 ELSE -1,
                  Tail(outcomes))

History(pre, post, outcomes) ==
    /\ run' = IF post.status = "CLOSED" /\ post.failures = 0 THEN 0
              ELSE runAfter(run, outcomes)
    /\ hoSucc' = IF pre.status # "HALF_OPEN" /\ post.status = "HALF_OPEN" THEN 0
                 ELSE IF pre.status = "HALF_OPEN"
                      THEN hoSucc + Cardinality({i \in DOMAIN outcomes : outcomes[i] = "S"})
                      ELSE hoSucc

\* circuitBreakerMiddleware: a bare isOpen() query
IsOpen ==
    LET q == isOpen(state, now) IN
    /\ state' = q.state
    /\ last' = [NoOp EXCEPT !.op = "isOpen", !.pre = state, !.ret = q.ret]
    /\ History(state, q.state, <<>>)
    /\ UNCHANGED <<now, calls>>
    /\ UNCHANGED exceptBreaker

\* execute(fn, fallback) up to its await: the isOpen() check, then either the
\* short circuit (fallback or the circuit-open error) or the call of fn()
Execute(c, fallback, fbOk) ==
    LET q == isOpen(state, now) IN
    /\ calls[c].pc = "idle"
    /\ state' = q.state
    /\ History(state, q.state, <<>>)
    /\ IF q.ret
       THEN /\ calls' = calls
            /\ last' = [NoOp EXCEPT !.op = "execute", !.call = c, !.pre = state, !.ret = TRUE,
                                     !.fallback = fallback,
                                     !.result = shortCircuit(fallback, fbOk)]
       ELSE /\ calls' = [calls EXCEPT ![c] = [pc |-> "awaiting", fallback |-> fallback,
                                               admitted |-> q.state.status]]
            /\ last' = [NoOp EXCEPT !.op = "execute", !.call = c, !.pre = state,
                                     !.fallback = fallback, !.invoked = TRUE,
                                     !.result = "pending"]
    /\ UNCHANGED now
    /\ UNCHANGED exceptBreaker

\* execute() after its await: fn() has resolved (ok) or rejected
Settle(c, ok, fbOk) ==
    LET outcomes == recorded(ok, calls[c].fallback)
        post == apply(state, outcomes, now)
    IN
    /\ calls[c].pc = "awaiting"
    /\ ok \/ state.failures < MaxFailures
    /\ state' = post
    /\ History(state, post, outcomes)
    /\ calls' = [calls EXCEPT ![c] = IdleCall]
    /\ last' = [NoOp EXCEPT !.op = IF ok THEN "settleOk" ELSE "settleFail", !.call = c,
                             !.pre = state, !.fallback = calls[c].fallback,
                             !.invoked = TRUE, !.recorded = outcomes,
                             !.result = settled(ok, calls[c].fallback, fbOk)]
    /\ UNCHANGED now
    /\ UNCHANGED exceptBreaker

\* recordSuccess() called on its own
RecordSuccess ==
    LET post == recordSuccess(state) IN
    /\ state' = post
    /\ History(state, post, <<"S">>)
    /\ last' = [NoOp EXCEPT !.op = "recordSuccess", !.pre = state, !.recorded = <<"S">>]
    /\ UNCHANGED <<now, calls>>
    /\ UNCHANGED exceptBreaker

\* recordFailure() called on its own
RecordFailure ==
    LET post == recordFailure(state, now) IN
    /\ state.failures < MaxFailures
    /\ state' = post
    /\ History(state, post, <<"F">>)
    /\ last' = [NoOp EXCEPT !.op = "recordFailure", !.pre = state, !.recorded = <<"F">>]
    /\ UNCHANGED <<now, calls>>
    /\ UNCHANGED exceptBreaker

\* reset()
Reset ==
    /\ state' = InitialState
    /\ last' = [NoOp EXCEPT !.op = "reset", !.pre = state]
    /\ run' = 0
    /\ hoSucc' = 0
    /\ UNCHANGED <<now, calls>>
    /\ UNCHANGED exceptBreaker

\* time passes between two operations on the breaker
BreakerClock ==
    /\ now + TimeStep <= MaxTimeouts * timeout
    /\ now' = now + TimeStep
    /\ last' = [NoOp EXCEPT !.op = "clock", !.pre = state]
    /\ UNCHANGED <<state, calls, run, hoSucc>>
    /\ UNCHANGED exceptBreaker

\* ---------------------------------------------------------------------
\* RateLimiter
\* ---------------------------------------------------------------------
Min(a, b) == IF a <= b THEN a ELSE b

\* faulty variant: the refill forgets the tokens the bucket held
refillBucket_DropsTokens(b, t) ==
    LET timePassed == t - b.lastRefillTime
        tokensToAdd == timePassed * refillRate
    IN  [tokens |-> Min(capacity * TokenUnit, tokensToAdd), lastRefillTime |-> t]

\* faulty variant: the refill is not capped at the capacity
refillBucket_NoCap(b, t) ==
    LET timePassed == t - b.lastRefillTime
        tokensToAdd == timePassed * refillRate
    IN  [tokens |-> b.tokens + tokensToAdd, lastRefillTime |-> t]

\* refillBucket(bucket) at time t
refillBucket(b, t) ==
    LET timePassed == t - b.lastRefillTime
        tokensToAdd == timePassed * refillRate
    IN  [tokens |-> Min(capacity * TokenUnit, b.tokens + tokensToAdd), lastRefillTime |-> t]

\* faulty variant: a new bucket starts empty
allowRequest_StartsEmpty(bs, k, t) ==
    LET b0 == IF bs[k] = NoBucket
              THEN [tokens |-> 0, lastRefillTime |-> t]
              ELSE bs[k]
        b1 == refillBucket(b0, t)
    IN  IF b1.tokens >= TokenUnit
        THEN [ret |-> TRUE, buckets |-> [bs EXCEPT ![k] = [b1 EXCEPT !.tokens = @ - TokenUnit]]]
        ELSE [ret |-> FALSE, buckets |-> [bs EXCEPT ![k] = b1]]

\* faulty variant: a granted call does not take its token
allowRequest_NoSpend(bs, k, t) ==
    LET b0 == IF bs[k] = NoBucket
              THEN [tokens |-> capacity * TokenUnit, lastRefillTime |-> t]
              ELSE bs[k]
        b1 == refillBucket(b0, t)
    IN  [ret |-> b1.tokens >= TokenUnit, buckets |-> [bs EXCEPT ![k] = b1]]

\* allowRequest(clientId) at time t: the value it returns and the map it leaves
allowRequest(bs, k, t) ==
    LET b0 == IF bs[k] = NoBucket
              THEN [tokens |-> capacity * TokenUnit, lastRefillTime |-> t]
              ELSE bs[k]
        b1 == refillBucket(b0, t)
    IN  IF b1.tokens >= TokenUnit
        THEN [ret |-> TRUE, buckets |-> [bs EXCEPT ![k] = [b1 EXCEPT !.tokens = @ - TokenUnit]]]
        ELSE [ret |-> FALSE, buckets |-> [bs EXCEPT ![k] = b1]]

\* Math.ceil(n / d) for d > 0 (the sign of a zero is not kept)
Ceil(n, d) == -((-n) \div d)

\* faulty variant: the estimate is rounded down
getRetryAfter_RoundedDown(bs, k) ==
    IF bs[k] = NoBucket
    THEN 0
    ELSE (TokenUnit - bs[k].tokens) \div (refillRate * TokenUnit)

\* getRetryAfter(clientId): Math.ceil((1 - bucket.tokens) / this.refillRate)
getRetryAfter(bs, k) ==
    IF bs[k] = NoBucket
    THEN 0
    ELSE Ceil(TokenUnit - bs[k].tokens, refillRate * TokenUnit)

\* rateLimitMiddleware: one allowRequest(clientId) call and, when it is refused,
\* the getRetryAfter(clientId) call that fills the 429 answer
AllowRequest(k) ==
    LET r == allowRequest(buckets, k, now)
        t0 == IF buckets[k] = NoBucket THEN now ELSE created[k]
        g == (IF buckets[k] = NoBucket THEN 0 ELSE granted[k]) + (IF r.ret THEN 1 ELSE 0)
    IN
    /\ k = Bystander => granted[k] < MaxBystander
    /\ buckets' = r.buckets
    /\ created' = [created EXCEPT ![k] = t0]
    /\ granted' = [granted EXCEPT ![k] = g]
    /\ drained' = [drained EXCEPT ![k] =
                      (buckets[k] # NoBucket /\ drained[k]) \/ (g = capacity /\ t0 = now)]
    /\ retryAfter' = IF r.ret THEN NoRetry
                     ELSE [called |-> TRUE, key |-> k, value |-> getRetryAfter(r.buckets, k)]
    /\ UNCHANGED now
    /\ UNCHANGED exceptLimiter

\* getRetryAfter(clientId), called on its own (explored for the client under study)
GetRetryAfter(k) ==
    /\ retryAfter' = [called |-> TRUE, key |-> k, value |-> getRetryAfter(buckets, k)]
    /\ UNCHANGED <<buckets, created, granted, drained>>
    /\ UNCHANGED now
    /\ UNCHANGED exceptLimiter

\* reset(clientId)
ResetClient(k) ==
    /\ buckets' = [buckets EXCEPT ![k] = NoBucket]
    /\ created' = [created EXCEPT ![k] = -1]
    /\ granted' = [granted EXCEPT ![k] = 0]
    /\ drained' = [drained EXCEPT ![k] = FALSE]
    /\ retryAfter' = NoRetry
    /\ UNCHANGED now
    /\ UNCHANGED exceptLimiter

\* time passes between two operations on the limiter
LimiterClock ==
    /\ now + RefillStep <= MaxTicks * RefillStep
    /\ now' = now + RefillStep
    /\ retryAfter' = NoRetry
    /\ UNCHANGED <<buckets, created, granted, drained>>
    /\ UNCHANGED exceptLimiter

\* ---------------------------------------------------------------------
\* retry()  (apps/api/src/services/retry-mechanism.ts)
\* ---------------------------------------------------------------------
\* options.maxAttempts, options.delay, options.backoff as the caller passes
\* them; 0 stands for an option that is missing (undefined and 0 are both falsy)
Supplied == 0..MaxSupplied
Delays == {0, 500}
Backoffs == {0, 1, 2}
\* what fn() may reject with; a rejection without a reason carries undefined
Errors == {"NetworkError", "ValidationError", "undefined"}
\* what fn() may resolve with
Values == {"v1", "v2"}
Falsy == {"null", "undefined"}
MaxRetriesExceeded == "Error: Max retries exceeded"

\* x || d on numbers
Or(x, d) == IF x = 0 THEN d ELSE x

RECURSIVE Pow(_, _)
\* Math.pow(b, e) for a natural exponent
Pow(b, e) == IF e = 0 THEN 1 ELSE b * Pow(b, e - 1)

\* faulty variant: the exponent is the attempt number
backoffDelay_NextPower(delay, backoff, attempt) == delay * Pow(backoff, attempt)

\* delay * Math.pow(backoff, attempt - 1)
backoffDelay(delay, backoff, attempt) == delay * Pow(backoff, attempt - 1)

\* throw lastError || new Error('Max retries exceeded')
thrown(lastError) == IF lastError \in Falsy THEN MaxRetriesExceeded ELSE lastError

IdleRetry ==
    [pc |-> "idle",
     options |-> [maxAttempts |-> 0, delay |-> 0, backoff |-> 0, onRetry |-> FALSE],
     maxAttempts |-> 0, delay |-> 0, backoff |-> 0,
     attempt |-> 0, lastError |-> "null",
     outcomes |-> <<>>,     \* how each fn() call settled, in order
     observed |-> <<>>,     \* the arguments of each onRetry call, in order
     waits |-> <<>>,        \* the duration of each timer set, in order
     result |-> [kind |-> "none", value |-> "none"]]

\* retry(fn, options) is called: the options are read and attempt 1 calls fn()
Retry(ma, d, b, obs) ==
    /\ rt.pc = "idle"
    /\ rt' = [rt EXCEPT !.pc = "calling",
                        !.options = [maxAttempts |-> ma, delay |-> d, backoff |-> b, onRetry |-> obs],
                        !.maxAttempts = Or(ma, defaultMaxAttempts),
                        !.delay = Or(d, defaultDelay),
                        !.backoff = Or(b, defaultBackoff),
                        !.attempt = 1]
    /\ UNCHANGED exceptRetry

\* the fn() call of the current attempt resolves with v: retry returns it
FnResolves(v) ==
    /\ rt.pc = "calling"
    /\ rt' = [rt EXCEPT !.pc = "returned",
                        !.outcomes = Append(@, [ok |-> TRUE, value |-> v]),
                        !.result = [kind |-> "value", value |-> v]]
    /\ UNCHANGED exceptRetry

\* the fn() call of the current attempt rejects with e: the catch block runs,
\* up to the throw after the loop or up to the timer it sets
FnRejects(e) ==
    /\ rt.pc = "calling"
    /\ rt' = IF rt.attempt = rt.maxAttempts
             THEN [rt EXCEPT !.pc = "thrown",
                             !.lastError = e,
                             !.outcomes = Append(@, [ok |-> FALSE, value |-> e]),
                             !.result = [kind |-> "error", value |-> thrown(e)]]
             ELSE [rt EXCEPT !.pc = "waiting",
                             !.lastError = e,
                             !.outcomes = Append(@, [ok |-> FALSE, value |-> e]),
                             !.observed = IF rt.options.onRetry
                                          THEN Append(@, <<rt.attempt, e>>) ELSE @,
                             !.waits = Append(@, backoffDelay(rt.delay, rt.backoff, rt.attempt))]
    /\ UNCHANGED exceptRetry

\* the timer fires: attempt++ and the loop condition is tested
TimerFires ==
    /\ rt.pc = "waiting"
    /\ rt' = IF rt.attempt + 1 <= rt.maxAttempts
             THEN [rt EXCEPT !.pc = "calling", !.attempt = @ + 1]
             ELSE [rt EXCEPT !.pc = "thrown", !.attempt = @ + 1,
                             !.result = [kind |-> "error", value |-> thrown(rt.lastError)]]
    /\ UNCHANGED exceptRetry

\* ---------------------------------------------------------------------
\* Provider services and aggregatorService.searchAll()
\* ---------------------------------------------------------------------
\* A string is a sequence of characters.
Digits == {"0", "1", "2", "3", "4", "5", "6", "7", "8", "9"}
DigitValue ==
    [c \in Digits |->
        CASE c = "0" -> 0 [] c = "1" -> 1 [] c = "2" -> 2 [] c = "3" -> 3 [] c = "4" -> 4
          [] c = "5" -> 5 [] c = "6" -> 6 [] c = "7" -> 7 [] c = "8" -> 8 [] c = "9" -> 9]
NaN == [nan |-> TRUE, n |-> 0]

RECURSIVE firstNonSpace(_, _)
\* the first position from i on that holds no blank
firstNonSpace(str, i) ==
    IF i <= Len(str) /\ str[i] = " " THEN firstNonSpace(str, i + 1) ELSE i

RECURSIVE digitsValue(_, _, _)
\* the value of the run of digits that starts at position i
digitsValue(str, i, acc) ==
    IF i <= Len(str) /\ str[i] \in Digits
    THEN digitsValue(str, i + 1, acc * 10 + DigitValue[str[i]])
    ELSE acc

\* parseInt(string): blanks, a sign, then the leading digits; NaN without a digit
parseInt(str) ==
    LET i == firstNonSpace(str, 1)
        signed == i <= Len(str) /\ str[i] \in {"+", "-"}
        j == IF signed THEN i + 1 ELSE i
    IN  IF j <= Len(str) /\ str[j] \in Digits
        THEN [nan |-> FALSE,
              n |-> (IF signed /\ str[i] = "-" THEN -1 ELSE 1) * digitsValue(str, j, 0)]
        ELSE NaN

\* a < b on numbers: false when either side is NaN
lessThan(a, b) == ~a.nan /\ ~b.nan /\ a.n < b.n

\* the delivery ETA a provider's item may carry: none, or "10-15 min"
ETATexts ==
    {<<>>,
     <<"1", "0", "-", "1", "5", " ", "m", "i", "n">>}
\* '30 min', the ETA of an item that carries none
defaultETA == <<"3", "0", " ", "m", "i", "n">>
\* price, delivery fee and platform fee of an item: 245 and 255 in all
Charges ==
    {[price |-> 240, deliveryFee |-> 0, platformFee |-> 5],
     [price |-> 230, deliveryFee |-> 25, platformFee |-> 0]}
\* derived values an upstream item may carry beside its raw fields
Stale == [effectivePrice |-> 1, isCheapest |-> TRUE, isFastest |-> TRUE, badge |-> "Cheapest"]
\* the items at 230 carry such values (`derived` is empty when an item has none)
Items ==
    {[price |-> c.price, deliveryFee |-> c.deliveryFee, platformFee |-> c.platformFee,
      deliveryETA |-> e,
      derived |-> IF c.price = 230 THEN <<Stale>> ELSE <<>>] : c \in Charges, e \in ETATexts}
\* response.data.items of one answer: up to two items
Payloads == {<<>>} \cup {<<i>> : i \in Items} \cup {<<i, j>> : i, j \in Items}
\* protected timeout = 5000: the time, in ms, given to axios.create({ timeout })
providerTimeout == 5000
\* whether the HTTP client gives up a request that gets no answer: it does
\* after `ms` milliseconds, and a timeout of 0 means that it never does
abandoned(ms) == ms > 0
\* how the HTTP call of a provider's search may end; the last three are failures
HttpOutcomes == {"ok", "httpError", "timeout", "mapError"}

\* faulty variant: the derived values an item carries are taken over
normalizePriceComparison_KeepsCarried(p, i, data) ==
    LET own == data.derived # <<>>
    IN  [platform |-> p, index |-> i,
         price |-> data.price, deliveryFee |-> data.deliveryFee, platformFee |-> data.platformFee,
         effectivePrice |-> IF own THEN data.derived[1].effectivePrice
                            ELSE data.price + data.deliveryFee + data.platformFee,
         deliveryETA |-> IF data.deliveryETA = <<>> THEN defaultETA ELSE data.deliveryETA,
         isCheapest |-> own /\ data.derived[1].isCheapest,
         isFastest |-> own /\ data.derived[1].isFastest,
         badge |-> IF own THEN data.derived[1].badge ELSE "none"]

\* normalizePriceComparison(data) of the provider at place p of the list, for
\* the item at place i of its answer; of the quote's fields the model keeps
\* those the aggregator reads or writes and the raw charges.  Nothing but the
\* raw fields of `data` is read.
normalizePriceComparison(p, i, data) ==
    [platform |-> p, index |-> i,
     price |-> data.price, deliveryFee |-> data.deliveryFee, platformFee |-> data.platformFee,
     effectivePrice |-> data.price + data.deliveryFee + data.platformFee,
     deliveryETA |-> IF data.deliveryETA = <<>> THEN defaultETA ELSE data.deliveryETA,
     isCheapest |-> FALSE, isFastest |-> FALSE, badge |-> "none"]

\* faulty variant: the error is passed on to the caller
handleError_Rethrow(outcome) == [status |-> "rejected", by |-> "search", cause |-> outcome, value |-> <<>>]

\* handleError(error, context): logs and resolves with []
handleError(outcome) == [status |-> "fulfilled", by |-> "search", cause |-> outcome, value |-> <<>>]

\* search(query, lat, lng) of a provider service: how its promise settles
search(p, outcome, payload) ==
    IF outcome = "ok"
    THEN [status |-> "fulfilled", by |-> "search", cause |-> outcome,
          value |-> [i \in 1..Len(payload) |-> normalizePriceComparison(p, i, payload[i])]]
    ELSE handleError(outcome)

Pending == [status |-> "pending", by |-> "none", cause |-> "none", value |-> <<>>]
IdleAggregator ==
    [pc |-> "idle", caller |-> "none", n |-> 0,
     started |-> {},        \* the providers whose search() has been called
     results |-> [p \in 1..MaxProviders |-> Pending],
     result |-> [status |-> "none", value |-> <<>>],
     response |-> [status |-> 0, success |-> FALSE, results |-> <<>>],
     run |-> 1,             \* 2 once the call has been made again
     sameObjects |-> FALSE, \* in run 2: the providers hand over the objects of run 1
     responses |-> [p \in 1..MaxProviders |-> Pending],   \* what they answer in run 2
     first |-> [status |-> "none", value |-> <<>>]]         \* what run 1 gave

RECURSIVE flatMap(_, _, _)
\* results.filter(r => r.status === 'fulfilled').flatMap(r => r.value), from place p on
flatMap(results, p, n) ==
    IF p > n THEN <<>>
    ELSE (IF results[p].status = "fulfilled" THEN results[p].value ELSE <<>>)
            \o flatMap(results, p + 1, n)

RECURSIVE insert(_, _)
\* x put into the sorted ys behind every element that does not cost more
insert(x, ys) ==
    IF ys = <<>> THEN <<x>>
    ELSE IF Head(ys).effectivePrice <= x.effectivePrice
         THEN <<Head(ys)>> \o insert(x, Tail(ys))
         ELSE <<x>> \o ys

RECURSIVE insertBefore(_, _)
\* x put into the sorted ys before every element that costs as much or more
insertBefore(x, ys) ==
    IF ys = <<>> THEN <<x>>
    ELSE IF Head(ys).effectivePrice < x.effectivePrice
         THEN <<Head(ys)>> \o insertBefore(x, Tail(ys))
         ELSE <<x>> \o ys

RECURSIVE sort_Unstable(_)
RECURSIVE sort(_)
\* faulty variant: quotes of equal price come out in reverse order
sort_Unstable(xs) ==
    IF xs = <<>> THEN <<>>
    ELSE insertBefore(xs[Len(xs)], sort_Unstable(SubSeq(xs, 1, Len(xs) - 1)))

\* allResults.sort((a, b) => a.effectivePrice - b.effectivePrice): Array.prototype.sort
\* is stable (ECMAScript 2019)
sort(xs) ==
    IF xs = <<>> THEN <<>>
    ELSE insert(xs[Len(xs)], sort(SubSeq(xs, 1, Len(xs) - 1)))

\* faulty variant: the cheapest mark of the first element is switched over
markCheapest_Toggle(xs) ==
    IF Len(xs) > 0
    THEN [xs EXCEPT ![1].isCheapest = ~xs[1].isCheapest,
                    ![1].badge = IF xs[1].isCheapest THEN "" ELSE "Cheapest"]
    ELSE xs

\* if (allResults.length > 0) { allResults[0].isCheapest = true; ... }
markCheapest(xs) ==
    IF Len(xs) > 0 THEN [xs EXCEPT ![1].isCheapest = TRUE, ![1].badge = "Cheapest"] ELSE xs

RECURSIVE reduce(_, _, _)
\* the steps of allResults.reduce((prev, current) => ...) from place i on
reduce(xs, prev, i) ==
    IF i > Len(xs) THEN prev
    ELSE reduce(xs,
            IF lessThan(parseInt(xs[i].deliveryETA), parseInt(xs[prev].deliveryETA))
            THEN i ELSE prev,
            i + 1)

RECURSIVE reduceLastOnTie(_, _, _)
\* the steps of a reduce that keeps `prev` only when it is strictly less
reduceLastOnTie(xs, prev, i) ==
    IF i > Len(xs) THEN prev
    ELSE reduceLastOnTie(xs,
            IF lessThan(parseInt(xs[prev].deliveryETA), parseInt(xs[i].deliveryETA))
            THEN prev ELSE i,
            i + 1)

\* faulty variant: of the quotes with the least ETA the last one is taken
fastest_LastOnTie(xs) == reduceLastOnTie(xs, 1, 2)

\* the place of `fastest` in a non-empty allResults
fastest(xs) == reduce(xs, 1, 2)

\* faulty variant: the fastest quote is marked wherever it stands
markFastest_Always(xs, f) == [xs EXCEPT ![f].isFastest = TRUE, ![f].badge = "Fastest"]

\* if (fastest && fastest !== allResults[0]) { fastest.isFastest = true; ... }
markFastest(xs, f) ==
    IF f # 1 THEN [xs EXCEPT ![f].isFastest = TRUE, ![f].badge = "Fastest"] ELSE xs

\* searchAll(query, lat, lng, providers) once every search has settled: what
\* the call gives.  reduce() without an initial value throws a TypeError on an
\* empty array.
searchAll(results, n) ==
    LET allResults == markCheapest(sort(flatMap(results, 1, n)))
    IN  IF Len(allResults) = 0
        THEN [status |-> "raised", value |-> <<>>]
        ELSE [status |-> "returned", value |-> markFastest(allResults, fastest(allResults))]

\* what the GET handler answers after its searchAll() call
respond(result) ==
    IF result.status = "raised"
    THEN [status |-> 500, success |-> FALSE, results |-> <<>>]
    ELSE [status |-> 200, success |-> TRUE, results |-> result.value]

\* the quote object q as the finished call left it (the marks are written
\* into the objects the providers handed over)
asLeft(q, xs) ==
    CHOOSE x \in {xs[j] : j \in 1..Len(xs)} : x.platform = q.platform /\ x.index = q.index

\* the settled searches, their quote objects seen after the call has returned
afterCall(results, n, xs) ==
    [p \in 1..MaxProviders |->
        IF p <= n /\ results[p].status = "fulfilled"
        THEN [results[p] EXCEPT !.value = [i \in 1..Len(results[p].value) |->
                                              asLeft(results[p].value[i], xs)]]
        ELSE results[p]]

\* faulty variant: settles as Promise.all does, at the first rejection
allSettled_FailFast(results, n) ==
    \/ \A p \in 1..n : results[p].status # "pending"
    \/ \E p \in 1..n : results[p].status = "rejected"

\* Promise.allSettled(promises) resolves once every one of the promises has settled
allSettled(results, n) == \A p \in 1..n : results[p].status # "pending"

\* searchAll() is called with n providers: providers.map(p => p.search(...))
\* calls every provider's search before the await
SearchAll(n) ==
    /\ agg.pc = "idle"
    /\ agg' = [agg EXCEPT !.pc = "searching", !.caller = "direct", !.n = n,
                          !.started = 1..n]
    /\ UNCHANGED exceptAggregator

\* GET /api/search with valid parameters and nothing cached: the handler
\* calls searchAll() with `const providers = []`
Get ==
    /\ agg.pc = "idle"
    /\ agg' = [agg EXCEPT !.pc = "searching", !.caller = "GET", !.n = 0,
                          !.started = {}]
    /\ UNCHANGED exceptAggregator

\* the search of the provider at place p settles, its HTTP call having ended
\* in `outcome` (with `payload` as response.data.items)
ProviderSearch(p, outcome, payload) ==
    /\ agg.pc = "searching"
    /\ agg.run = 1
    /\ p \in agg.started
    /\ agg.results[p].status = "pending"
    /\ outcome # "ok" => payload = <<>>
    /\ outcome = "timeout" => abandoned(providerTimeout)
    /\ agg' = [agg EXCEPT !.results[p] = search(p, outcome, payload)]
    /\ UNCHANGED exceptAggregator

\* the provider at place p is some other object (providers: any[]) and the
\* promise its search returned rejects
SearchRejects(p) ==
    /\ agg.pc = "searching"
    /\ agg.run = 1
    /\ p \in agg.started
    /\ agg.results[p].status = "pending"
    /\ agg' = [agg EXCEPT !.results[p] =
                  [status |-> "rejected", by |-> "other", cause |-> "error", value |-> <<>>]]
    /\ UNCHANGED exceptAggregator

\* searchAll() is called a second time with the same providers, which will
\* answer as they did: with new quote objects of the same content, or
\* (sameObjects) with the very objects of the first call, marks included
SearchAgain(sameObjects) ==
    /\ agg.pc = "done"
    /\ agg.run = 1
    /\ agg.caller = "direct"
    /\ agg' = [agg EXCEPT !.pc = "searching", !.run = 2,
                          !.sameObjects = sameObjects,
                          !.first = agg.result,
                          !.responses = IF sameObjects
                                        THEN afterCall(agg.results, agg.n, agg.result.value)
                                        ELSE agg.results,
                          !.results = [p \in 1..MaxProviders |-> Pending],
                          !.result = [status |-> "none", value |-> <<>>]]
    /\ UNCHANGED exceptAggregator

\* in the second call the search of the provider at place p settles as before
SettlesAgain(p) ==
    /\ agg.pc = "searching"
    /\ agg.run = 2
    /\ p \in agg.started
    /\ agg.results[p].status = "pending"
    /\ agg' = [agg EXCEPT !.results[p] = agg.responses[p]]
    /\ UNCHANGED exceptAggregator

\* Promise.allSettled resolves: the rest of searchAll() runs and, in the GET
\* handler, the answer is built
AllSettled ==
    /\ agg.pc = "searching"
    /\ allSettled(agg.results, agg.n)
    /\ LET result == searchAll(agg.results, agg.n)
       IN  agg' = [agg EXCEPT !.pc = "done",
                              !.result = result,
                              !.response = IF agg.caller = "GET" THEN respond(result) ELSE @]
    /\ UNCHANGED exceptAggregator

\* ---------------------------------------------------------------------
\* BaseProviderService: quantity and price per unit of a quote
\* ---------------------------------------------------------------------

\* the inputs: export type Unit, and a unit the type does not know
Units == {"g", "ml", "pieces", "kg", "l"}
OtherUnits == {"dozen"}
Prices == {0, 45, 100, 240}
Quantities == {-1, 0, 1, 2, 500}

\* a number of the code that need not be whole: num / den with den > 0
Ratio(num, den) == [num |-> num, den |-> den]
Whole(n) == Ratio(n, 1)
\* a / b for a whole a and a ratio b > 0
Over(a, b) == Ratio(a * b.den, b.num)
Positive(r) == r.num > 0
SameNumber(r, s) == r.num * s.den = s.num * r.den

\* normalizeQuantity(quantity, unit): unitMap[unit] || quantity
normalizeQuantity(quantity, unit) ==
    CASE unit \in {"g", "ml", "pieces"} -> quantity
      [] unit \in {"kg", "l"} -> quantity * 1000
      [] OTHER -> quantity

\* calculatePricePerUnit(price, quantity, unit)
calculatePricePerUnit(price, quantity, unit) ==
    LET baseQty == normalizeQuantity(quantity, unit)
        divisor == IF unit \in {"ml", "g"} THEN Ratio(baseQty, 100) ELSE Whole(quantity)
    IN  IF Positive(divisor) THEN Over(price, divisor) ELSE Whole(0)

NoQuote == [called |-> FALSE, price |-> 0, quantity |-> 0, unit |-> "none",
            baseQuantity |-> 0, pricePerUnit |-> Whole(0)]

\* normalizePriceComparison(data) fills product.baseQuantity and pricePerUnit
\* of the quote from the item's price, quantity and unit
NormalizeQuote(price, quantity, unit) ==
    /\ pq' = [called |-> TRUE, price |-> price, quantity |-> quantity, unit |-> unit,
              baseQuantity |-> normalizeQuantity(quantity, unit),
              pricePerUnit |-> calculatePricePerUnit(price, quantity, unit)]
    /\ UNCHANGED exceptQuote

\* ---------------------------------------------------------------------
\* CacheService (in memory)
\* ---------------------------------------------------------------------

\* const ttl = options.ttl || 300
defaultTtl == 300
\* the ttl option in seconds (0: none given) and the namespace option
\* (empty: none given)
Ttls == {0, 1}
Namespaces == {<<>>, <<"s">>}
\* the key the callers use, and the keys get() is asked for
Key == <<"k">>
GetKeys == {Key, <<"s", ":", "k">>}
CacheValues == {"v1", "zero"}
Patterns == {<<>>, <<"s", ":">>}
\* if (cached): 0 is falsy, as is the null of a miss
truthy(v) == v \notin {"zero", "null"}

\* const ns = options.namespace ? `${options.namespace}:` : ''; `${ns}${key}`
finalKey(namespace, key) == IF namespace # <<>> THEN namespace \o <<":">> \o key ELSE key
StoreKeys == {finalKey(ns, Key) : ns \in Namespaces}

\* key.includes(pattern)
includes(key, pattern) ==
    \E i \in 1..(Len(key) - Len(pattern) + 1) : SubSeq(key, i, i + Len(pattern) - 1) = pattern

Absent == [present |-> FALSE, value |-> "null", expires |-> 0]

\* faulty variant: an entry is taken as expired at its expiry time already,
\* and an expired entry is left in the Map
get_EarlyAndKept(cache, key, t) ==
    IF key \notin DOMAIN cache \/ ~cache[key].present
    THEN [returned |-> "null", cache |-> cache]
    ELSE IF t >= cache[key].expires
         THEN [returned |-> "null", cache |-> cache]
         ELSE [returned |-> cache[key].value, cache |-> cache]

\* get(key) at time t: what it returns and the Map it leaves
get(cache, key, t) ==
    IF key \notin DOMAIN cache \/ ~cache[key].present
    THEN [returned |-> "null", cache |-> cache]
    ELSE IF t > cache[key].expires
         THEN [returned |-> "null", cache |-> [cache EXCEPT ![key] = Absent]]
         ELSE [returned |-> cache[key].value, cache |-> cache]

\* set(key, value, options) at time t: the Map it leaves
set(cache, key, value, ttl, namespace, t) ==
    [cache EXCEPT ![finalKey(namespace, key)] =
        [present |-> TRUE, value |-> value, expires |-> t + Or(ttl, defaultTtl) * 1000]]

\* invalidate(pattern): the Map it leaves
invalidate(cache, pattern) ==
    [k \in DOMAIN cache |->
        IF pattern = <<>> \/ includes(k, pattern) THEN Absent ELSE cache[k]]

\* what the callers asked for last under a key of the Map: nothing, or a
\* `value` to be kept for `ttl` seconds (0: as long as the default) from `at`
Unset == [present |-> FALSE, value |-> "null", ttl |-> 0, at |-> 0]
Quiet == [name |-> "none", key |-> <<>>, returned |-> "null"]
IdleGetOrSet == [pc |-> "idle", namespace |-> <<>>, ttl |-> 0, invoked |-> FALSE,
                 returned |-> "null"]
IdleCache ==
    [cache |-> [k \in StoreKeys |-> Absent],
     latest |-> [k \in StoreKeys |-> Unset],
     op |-> Quiet,          \* the get() or getOrSet() call of the last step, if any
     call |-> IdleGetOrSet]

CacheGet(key) ==
    /\ LET r == get(cs.cache, key, now)
       IN  cs' = [cs EXCEPT !.cache = r.cache,
                            !.op = [name |-> "get", key |-> key, returned |-> r.returned]]
    /\ UNCHANGED <<now, exceptCache>>

CacheSet(value, ttl, namespace) ==
    /\ cs' = [cs EXCEPT !.cache = set(cs.cache, Key, value, ttl, namespace, now),
                        !.latest[finalKey(namespace, Key)] =
                            [present |-> TRUE, value |-> value, ttl |-> ttl, at |-> now],
                        !.op = Quiet]
    /\ UNCHANGED <<now, exceptCache>>

Invalidate(pattern) ==
    /\ cs' = [cs EXCEPT !.cache = invalidate(cs.cache, pattern),
                        !.latest = [k \in StoreKeys |->
                                       IF pattern = <<>> \/ includes(k, pattern)
                                       THEN Unset ELSE cs.latest[k]],
                        !.op = Quiet]
    /\ UNCHANGED <<now, exceptCache>>

\* getOrSet(Key, fn, options) up to `await fn()`: the get, and the return of
\* what it gave if that is truthy
GetOrSet(ttl, namespace) ==
    /\ cs.call.pc # "computing"
    /\ LET r == get(cs.cache, Key, now)
       IN  cs' = [cs EXCEPT !.cache = r.cache,
                            !.op = [name |-> "getOrSet", key |-> Key, returned |-> "null"],
                            !.call = [pc |-> IF truthy(r.returned) THEN "done" ELSE "computing",
                                      namespace |-> namespace, ttl |-> ttl,
                                      invoked |-> ~truthy(r.returned),
                                      returned |-> IF truthy(r.returned) THEN r.returned
                                                   ELSE "null"]]
    /\ UNCHANGED <<now, exceptCache>>

\* fn() resolves with `value`: getOrSet stores it and returns it
FnReturns(value) ==
    /\ cs.call.pc = "computing"
    /\ cs' = [cs EXCEPT !.cache = set(cs.cache, Key, value, cs.call.ttl, cs.call.namespace, now),
                        !.latest[finalKey(cs.call.namespace, Key)] =
                            [present |-> TRUE, value |-> value, ttl |-> cs.call.ttl, at |-> now],
                        !.op = Quiet,
                        !.call.pc = "done",
                        !.call.returned = value]
    /\ UNCHANGED <<now, exceptCache>>

\* a second passes
CacheClock ==
    /\ now < MaxSeconds * 1000
    /\ now' = now + 1000
    /\ cs' = [cs EXCEPT !.op = Quiet]
    /\ UNCHANGED exceptCache

\* ---------------------------------------------------------------------
\* cacheService (Redis) and the key of a search
\* ---------------------------------------------------------------------

\* validated search parameters: the query, latitude and longitude in tenths
\* of a degree, and the pincode ("undefined": none)
SearchTexts == {<<"a", "b">>, <<"a", "b", ":", "0">>, <<"a", "b", ":", "0", ":", "0">>}
Lats == {-5, 0, 4, 5}
Lngs == {-16, -15, -14}
Pincodes == {"undefined", "110001"}
Params == [q : SearchTexts, lat : Lats, lng : Lngs, pincode : Pincodes]

\* faulty variant: the fraction is cut off
round_Floor(tenths) == tenths \div 10

\* Math.round(x) for x given in tenths: the nearest integer, halves going up
round(tenths) == (tenths + 5) \div 10

digitChars == <<"0", "1", "2", "3", "4", "5", "6", "7", "8", "9">>
RECURSIVE toDigits(_)
toDigits(n) ==
    IF n < 10 THEN <<digitChars[n + 1]>>
    ELSE toDigits(n \div 10) \o <<digitChars[(n % 10) + 1]>>
\* `${n}` for an integer n
toString(n) == IF n < 0 THEN <<"-">> \o toDigits(-n) ELSE toDigits(n)

\* getCacheKey(query, lat, lng): `search:${query}:${Math.round(lat)}:${Math.round(lng)}`
getCacheKey(query, lat, lng) ==
    <<"s", "e", "a", "r", "c", "h", ":">> \o query \o <<":">> \o toString(round(lat))
        \o <<":">> \o toString(round(lng))

\* await cacheService.set(cacheKey, response, 600)
searchTtl == 600

\* cacheService.get(key) on a Redis holding `store`, a set of entries each
\* with its key, its data and the seconds it was given: the data, or null
redisGet(store, key) ==
    IF \E e \in store : e.key = key
    THEN (CHOOSE e \in store : e.key = key).data
    ELSE "null"

NoKeys == [called |-> FALSE, a |-> <<>>, b |-> <<>>, keyA |-> <<>>, keyB |-> <<>>,
           served |-> FALSE]

\* the handler derives the key of request `a`, under which an answer is
\* stored, and later the key of request `b`, which it looks up
CacheKeys(a, b) ==
    /\ ~ck.called
    /\ LET keyA == getCacheKey(a.q, a.lat, a.lng)
           keyB == getCacheKey(b.q, b.lat, b.lng)
           store == {[key |-> keyA, data |-> "answerA", ttl |-> searchTtl]}
       IN  ck' = [called |-> TRUE, a |-> a, b |-> b, keyA |-> keyA, keyB |-> keyB,
                  served |-> redisGet(store, keyB) # "null"]
    /\ UNCHANGED exceptKey

\* ---------------------------------------------------------------------
\* The search route: GET and POST /api/search
\* ---------------------------------------------------------------------

Requests == {"r1", "r2"}
Methods == {"GET", "POST"}
\* what a request may carry: maybe a query (<<>>: none; else the one text,
\* of one or two characters), a place in tenths of a degree, inside the
\* ranges or just outside, and maybe a pincode ("absent": searchParams.get
\* gives null, a body gives undefined); at most one of the query, the
\* latitude and the longitude is wrong in one request
Inbound ==
    {p \in [q : {<<>>, <<<<"a">>>>, <<<<"a", "b">>>>}, lat : {4, 5, 901},
            lng : {-1801, -15}, pincode : {"absent", "110001"}] :
        Cardinality({p.q} \ {<<<<"a", "b">>>>}) + Cardinality({p.lat} \ {4, 5})
            + Cardinality({p.lng} \ {-15}) <= 1}
NoInput == [q |-> <<>>, lat |-> 0, lng |-> 0, pincode |-> "absent"]

\* faulty variant: the longitude is not checked
valid_AnyLongitude(method, p) ==
    /\ p.q # <<>>
    /\ Len(p.q[1]) >= 2
    /\ p.lat >= -900 /\ p.lat <= 900
    /\ (method = "GET" => p.pincode # "absent")

\* searchSchema.parse succeeds.  z.string().optional() takes a string or
\* undefined, and not the null GET passes for a pincode that is not there.
valid(method, p) ==
    /\ p.q # <<>>
    /\ Len(p.q[1]) >= 2
    /\ p.lat >= -900 /\ p.lat <= 900
    /\ p.lng >= -1800 /\ p.lng <= 1800
    /\ (method = "GET" => p.pincode # "absent")

\* cacheService.set(key, value, ttl) on a Redis holding `store`: SETEX
redisSet(store, key, data, ttl) ==
    {e \in store : e.key # key} \cup {[key |-> key, data |-> data, ttl |-> ttl]}

NoAnswer == [status |-> 0, success |-> FALSE, results |-> "none", cacheHit |-> "none"]
IdleRequest == [pc |-> "idle", method |-> "none", input |-> NoInput, key |-> <<>>,
                lookups |-> 0, searches |-> 0, response |-> NoAnswer]
IdleSearch == [store |-> {}, req |-> [r \in Requests |-> IdleRequest]]

\* the keys the requests of the model can have
SearchKeys == {getCacheKey(p.q[1], p.lat, p.lng) : p \in {i \in Inbound : valid("POST", i)}}

\* a request arrives: it is validated and, if valid, its key is derived and
\* cacheService.get is called; if not, the catch block answers
Receive(r, method, p) ==
    /\ srv.req[r].pc \in {"idle", "done"}
    /\ srv' = [srv EXCEPT !.req[r] =
          IF valid(method, p)
          THEN [IdleRequest EXCEPT !.pc = "lookup", !.method = method, !.input = p,
                                   !.key = getCacheKey(p.q[1], p.lat, p.lng),
                                   !.lookups = 1]
          ELSE [IdleRequest EXCEPT !.pc = "done", !.method = method, !.input = p,
                                   !.response = [NoAnswer EXCEPT
                                       !.status = IF method = "GET" THEN 400 ELSE 500]]]
    /\ UNCHANGED exceptSearch

\* cacheService.get resolves: on a hit the cached data is returned with
\* cacheHit: true, on a miss searchAll() is called with `providers = []`
Lookup(r) ==
    /\ srv.req[r].pc = "lookup"
    /\ LET cached == redisGet(srv.store, srv.req[r].key)
       IN  srv' = [srv EXCEPT !.req[r] =
              IF cached # "null"
              THEN [@ EXCEPT !.pc = "done",
                             !.response = [status |-> 200, success |-> TRUE,
                                           results |-> cached, cacheHit |-> "true"]]
              ELSE [@ EXCEPT !.pc = "aggregating", !.searches = @ + 1]]
    /\ UNCHANGED exceptSearch

\* faulty variant: the catch block stores its answer under the key
answered_StoresError(store, key, result) ==
    LET results == IF result.value = <<>> THEN "[]" ELSE "quotes"
    IN  IF result.status = "raised"
        THEN [store |-> redisSet(store, key, "error", searchTtl),
              response |-> [NoAnswer EXCEPT !.status = 500]]
        ELSE [store |-> redisSet(store, key, results, searchTtl),
              response |-> [status |-> 200, success |-> TRUE, results |-> results,
                            cacheHit |-> "false"]]

\* the handler after its searchAll() call: the result is made the response,
\* stored under the key and returned, or, if the call raised, the catch
\* block answers and nothing is stored
answered(store, key, result) ==
    LET results == IF result.value = <<>> THEN "[]" ELSE "quotes"
    IN  IF result.status = "raised"
        THEN [store |-> store, response |-> [NoAnswer EXCEPT !.status = 500]]
        ELSE [store |-> redisSet(store, key, results, searchTtl),
              response |-> [status |-> 200, success |-> TRUE, results |-> results,
                            cacheHit |-> "false"]]

\* the searchAll() call of the handler ends
Aggregated(r) ==
    /\ srv.req[r].pc = "aggregating"
    /\ LET a == answered(srv.store, srv.req[r].key, searchAll(IdleAggregator.results, 0))
       IN  srv' = [srv EXCEPT !.store = a.store,
                              !.req[r].pc = "done",
                              !.req[r].response = a.response]
    /\ UNCHANGED exceptSearch

\* some other client of the same Redis stores an answer under a search key
Stored(key) ==
    /\ srv' = [srv EXCEPT !.store = redisSet(@, key, "quotes", searchTtl)]
    /\ srv'.store # srv.store
    /\ UNCHANGED exceptSearch

\* Redis drops an entry whose seconds are over
Expired(key) ==
    /\ \E e \in srv.store : e.key = key
    /\ srv' = [srv EXCEPT !.store = {e \in @ : e.key # key}]
    /\ UNCHANGED exceptSearch


\* ---------------------------------------------------------------------
\* The middleware stack and its module-level breaker
\* ---------------------------------------------------------------------
\* err.status of what a handler may throw (0: the error carries none)
ErrorStatuses == {0, 404, 503}

Unanswered == [status |-> 0, by |-> "none"]
IdleMiddleware == [r \in Requests |-> [pc |-> "idle", response |-> Unanswered]]

\* errorHandler: res.status(err.status || 500)
errorHandler(status) == [status |-> Or(status, 500), by |-> "errorHandler"]

\* circuitBreakerMiddleware for request r: circuitBreaker.isOpen(), then the
\* 503 answer or next()
CircuitBreakerMiddleware(r) ==
    LET q == isOpen(state, now) IN
    /\ mw[r].pc \in {"idle", "done"}
    /\ state' = q.state
    /\ last' = [NoOp EXCEPT !.op = "isOpen", !.pre = state, !.ret = q.ret]
    /\ History(state, q.state, <<>>)
    /\ mw' = [mw EXCEPT ![r] =
                 IF q.ret
                 THEN [pc |-> "done",
                       response |-> [status |-> 503, by |-> "circuitBreakerMiddleware"]]
                 ELSE [pc |-> "next", response |-> Unanswered]]
    /\ UNCHANGED <<now, calls>>
    /\ UNCHANGED exceptMiddleware

\* what follows next() answers the request
Answered(r) ==
    /\ mw[r].pc = "next"
    /\ mw' = [mw EXCEPT ![r] = [pc |-> "done", response |-> [status |-> 200, by |-> "handler"]]]
    /\ UNCHANGED <<now, breakerVars, exceptMiddleware>>

\* what follows next() throws: errorHandler answers; nothing is recorded on
\* the breaker
Failed(r, status) ==
    /\ mw[r].pc = "next"
    /\ mw' = [mw EXCEPT ![r] = [pc |-> "done", response |-> errorHandler(status)]]
    /\ UNCHANGED <<now, breakerVars, exceptMiddleware>>


\* ---------------------------------------------------------------------
\* EventEmitter (one event)
\* ---------------------------------------------------------------------
\* the caller's handler functions
HandlerIds == 1..MaxHandlers
\* an entry of the listeners array: the handler itself (pushed by on), or the
\* wrapper that once made around it
Entries == [id : HandlerIds, once : BOOLEAN]

\* handlers.indexOf(handler), counted from 1; 0 when it is not there
indexOf(handlers, handler) ==
    IF \E i \in DOMAIN handlers : handlers[i] = handler
    THEN CHOOSE i \in DOMAIN handlers :
             /\ handlers[i] = handler
             /\ \A j \in 1..(i - 1) : handlers[j] # handler
    ELSE 0

\* handlers.splice(index, 1) with index counted from 1
splice(handlers, index) ==
    [j \in 1..(Len(handlers) - 1) |-> IF j < index THEN handlers[j] ELSE handlers[j + 1]]

\* off(event, handler): the array it leaves
off(handlers, handler) ==
    LET index == indexOf(handlers, handler)
    IN  IF index > 0 THEN splice(handlers, index) ELSE handlers

IdleEmitter == [listeners |-> <<>>, pc |-> "idle", next |-> 0, registered |-> <<>>,
                invoked |-> <<>>, touched |-> FALSE]

\* the emitter after a call of on, once or off that left `handlers`: an
\* emit() call in progress goes on, on the changed array, and is no longer
\* followed; the record of a call that has resolved is dropped
changed(e, handlers) ==
    [IdleEmitter EXCEPT !.listeners = handlers,
                        !.pc = IF e.pc = "emitting" THEN "emitting" ELSE "idle",
                        !.next = IF e.pc = "emitting" THEN e.next ELSE 0,
                        !.touched = e.pc = "emitting"]

\* on(event, handler), or once(event, handler): the handler or its wrapper is
\* pushed.  (Explored for handlers that are not registered yet.)
On(id, once) ==
    /\ Len(em.listeners) < MaxHandlers
    /\ \A i \in DOMAIN em.listeners : em.listeners[i].id # id
    /\ em' = changed(em, Append(em.listeners, [id |-> id, once |-> once]))
    /\ UNCHANGED exceptEmitter

\* off(event, handler) called with the caller's function
Off(id) ==
    /\ \E i \in DOMAIN em.listeners : em.listeners[i].id = id
    /\ em' = changed(em, off(em.listeners, [id |-> id, once |-> FALSE]))
    /\ UNCHANGED exceptEmitter

\* emit(event) is called: the loop starts on the listeners array itself
Emit ==
    /\ em.pc # "emitting"
    /\ em' = [em EXCEPT !.pc = "emitting", !.next = 0, !.registered = em.listeners,
                        !.invoked = <<>>, !.touched = FALSE]
    /\ UNCHANGED exceptEmitter

\* one turn of `for (const handler of handlers) await handler(...)`: the
\* array iterator gives the element at its index, if there is one, and
\* moves on; the handler runs, and a wrapper made by once then removes itself
Invoke ==
    /\ em.pc = "emitting"
    /\ em.next < Len(em.listeners)
    /\ LET handler == em.listeners[em.next + 1]
       IN  em' = [em EXCEPT !.invoked = IF em.touched THEN @ ELSE Append(@, handler.id),
                           !.listeners = IF handler.once THEN off(@, handler) ELSE @,
                           !.next = @ + 1]
    /\ UNCHANGED exceptEmitter

\* the iterator is past the end of the array: emit() resolves
Return ==
    /\ em.pc = "emitting"
    /\ em.next >= Len(em.listeners)
    /\ em' = [em EXCEPT !.pc = IF em.touched THEN "idle" ELSE "done",
                        !.next = 0, !.touched = FALSE]
    /\ UNCHANGED exceptEmitter

Init ==
    /\ now = 0
    /\ state = InitialState
    /\ calls = [c \in Calls |-> IdleCall]
    /\ last = NoOp
    /\ run = 0
    /\ hoSucc = 0
    /\ buckets = [k \in Clients |-> NoBucket]
    /\ created = [k \in Clients |-> -1]
    /\ granted = [k \in Clients |-> 0]
    /\ drained = [k \in Clients |-> FALSE]
    /\ retryAfter = NoRetry
    /\ rt = IdleRetry
    /\ agg = IdleAggregator
    /\ pq = NoQuote
    /\ cs = IdleCache
    /\ ck = NoKeys
    /\ srv = IdleSearch
    /\ mw = IdleMiddleware
    /\ em = IdleEmitter

NextBreaker ==
    \/ IsOpen
    \* the fallback has an outcome only where execute() runs it
    \/ \E c \in Calls, fallback \in BOOLEAN :
           \E fbOk \in (IF fallback THEN BOOLEAN ELSE {FALSE}) : Execute(c, fallback, fbOk)
    \/ \E c \in Calls, ok \in BOOLEAN :
           \E fbOk \in (IF ~ok /\ calls[c].fallback THEN BOOLEAN ELSE {FALSE}) :
               Settle(c, ok, fbOk)
    \/ Reset
    \/ BreakerClock

SpecBreaker == Init /\ [][NextBreaker]_vars

\* the breaker's public methods called in any order: isOpen(),
\* recordSuccess(), recordFailure(), reset(), and execute() (one call, the
\* methods called on their own standing for whatever else is in flight)
NextBreakerOps ==
    \/ IsOpen
    \/ RecordSuccess
    \/ RecordFailure
    \/ \E fallback \in BOOLEAN :
           \E fbOk \in (IF fallback THEN BOOLEAN ELSE {FALSE}) : Execute(1, fallback, fbOk)
    \/ \E ok \in BOOLEAN :
           \E fbOk \in (IF ~ok /\ calls[1].fallback THEN BOOLEAN ELSE {FALSE}) :
               Settle(1, ok, fbOk)
    \/ Reset
    \/ BreakerClock

SpecBreakerOps == Init /\ [][NextBreakerOps]_vars

NextEmitter ==
    \/ \E id \in HandlerIds, once \in BOOLEAN : On(id, once)
    \/ \E id \in HandlerIds : Off(id)
    \/ Emit
    \/ Invoke
    \/ Return

SpecEmitter == Init /\ [][NextEmitter]_vars

NextMiddleware ==
    \/ \E r \in Requests : CircuitBreakerMiddleware(r)
    \/ \E r \in Requests : Answered(r)
    \/ \E r \in Requests, status \in ErrorStatuses : Failed(r, status)
    \/ BreakerClock

SpecMiddleware == Init /\ [][NextMiddleware]_vars

\* time keeps advancing (as far as the model's clock goes) and the breaker
\* keeps being queried
SpecBreakerFair ==
    /\ SpecBreakerOps
    /\ WF_vars(BreakerClock)
    /\ WF_vars(IsOpen)

NextLimiter ==
    \/ \E k \in Clients : AllowRequest(k)
    \/ \E k \in Clients : ResetClient(k)
    \/ \E k \in Clients \ {Bystander} : GetRetryAfter(k)
    \/ LimiterClock

SpecLimiter == Init /\ [][NextLimiter]_vars

NextRetry ==
    \/ \E ma \in Supplied, d \in Delays, b \in Backoffs, obs \in BOOLEAN : Retry(ma, d, b, obs)
    \/ \E v \in Values : FnResolves(v)
    \/ \E e \in Errors : FnRejects(e)
    \/ TimerFires

SpecRetry == Init /\ [][NextRetry]_vars

NextAggregator ==
    \/ \E n \in 0..MaxProviders : SearchAll(n)
    \/ Get
    \/ \E p \in 1..MaxProviders, outcome \in HttpOutcomes, payload \in Payloads :
          ProviderSearch(p, outcome, payload)
    \/ \E p \in 1..MaxProviders : SearchRejects(p)
    \/ \E sameObjects \in BOOLEAN : SearchAgain(sameObjects)
    \/ \E p \in 1..MaxProviders : SettlesAgain(p)
    \/ AllSettled

SpecAggregator == Init /\ [][NextAggregator]_vars

\* the await of searchAll() can go on: AllSettled is enabled exactly here
Joinable == agg.pc = "searching" /\ allSettled(agg.results, agg.n)

\* Nothing makes an upstream answer, but the timer of a request without an
\* answer fires, the providers of a second call settle as they did in the
\* first, and the continuation of a resolved await runs.  The last conjunct
\* is WF_vars(AllSettled) written out with the action's enabling condition.
SpecAggregatorFair ==
    /\ SpecAggregator
    /\ WF_vars(\E p \in 1..MaxProviders : ProviderSearch(p, "timeout", <<>>))
    /\ WF_vars(\E p \in 1..MaxProviders : SettlesAgain(p))
    /\ ([]<>~Joinable \/ []<><<AllSettled>>_vars)

NextQuote ==
    \E price \in Prices, quantity \in Quantities, unit \in Units \cup OtherUnits :
        NormalizeQuote(price, quantity, unit)

SpecQuote == Init /\ [][NextQuote]_vars

NextCache ==
    \/ \E key \in GetKeys : CacheGet(key)
    \/ \E value \in CacheValues, ttl \in Ttls, namespace \in Namespaces :
          CacheSet(value, ttl, namespace)
    \/ \E pattern \in Patterns : Invalidate(pattern)
    \/ CacheClock

SpecCache == Init /\ [][NextCache]_vars

\* getOrSet calls, one after the other, as the only users of the cache
NextGetOrSet ==
    \/ \E ttl \in Ttls, namespace \in Namespaces : GetOrSet(ttl, namespace)
    \/ \E value \in CacheValues : FnReturns(value)
    \/ CacheClock

SpecGetOrSet == Init /\ [][NextGetOrSet]_vars

NextKey == \E a \in Params, b \in Params : CacheKeys(a, b)

SpecKey == Init /\ [][NextKey]_vars

NextSearch ==
    \/ \E r \in Requests, method \in Methods, p \in Inbound : Receive(r, method, p)
    \/ \E r \in Requests : Lookup(r)
    \/ \E r \in Requests : Aggregated(r)
    \/ \E key \in SearchKeys : Stored(key)
    \/ \E key \in SearchKeys : Expired(key)

SpecSearch == Init /\ [][NextSearch]_vars

\* ---------------------------------------------------------------------
\* Claims about the CircuitBreaker (checked under SpecBreaker)
\* ---------------------------------------------------------------------
Queries == {"isOpen", "execute"}

\* C1: starting from a CLOSED breaker with failure count 0, isOpen() is false
\* after fewer than failureThreshold recorded failures, and true after exactly
\* failureThreshold consecutive ones (no success in between, less than the
\* cool-down elapsed since the last of them).
C1_OpensAtThreshold ==
    /\ (run >= 0 /\ run < failureThreshold) =>
          /\ state.status = "CLOSED"
          /\ state.failures = run
          /\ ~isOpen(state, now).ret
          /\ (last.op \in Queries => ~last.ret)
    /\ (run = failureThreshold /\ now - state.lastFailureTime < timeout) =>
          /\ state.status = "OPEN"
          /\ isOpen(state, now).ret
          /\ (last.op \in Queries => last.ret)

\* C1 witness: an isOpen() query answered true right after the fifth
\* consecutive failure.
C1_Witness ==
    /\ run = failureThreshold
    /\ last.op = "isOpen"
    /\ last.ret
    /\ state.failures = failureThreshold

\* C2: OPEN becomes HALF_OPEN only inside a query (isOpen(), alone or at the
\* head of execute()); a query of an OPEN breaker whose cool-down has elapsed
\* sets HALF_OPEN, zeroes the success counter and returns false; one whose
\* cool-down has not elapsed returns true and leaves the state as it was.
C2_LazyHalfOpen ==
    /\ (last.pre.status = "OPEN" /\ state.status = "HALF_OPEN") => last.op \in Queries
    /\ (last.op \in Queries /\ last.pre.status = "OPEN") =>
          IF now - last.pre.lastFailureTime > timeout
          THEN /\ state = [last.pre EXCEPT !.status = "HALF_OPEN", !.successCount = 0]
               /\ last.ret = FALSE
          ELSE /\ state = last.pre
               /\ last.ret = TRUE

\* C2 witness: a query at exactly `timeout` after the last failure (answered
\* true) has been followed by one after the cool-down, which moved the
\* breaker to HALF_OPEN.
C2_Witness ==
    /\ last.op = "isOpen"
    /\ last.pre.status = "OPEN"
    /\ state.status = "HALF_OPEN"
    /\ ~last.ret
    /\ now - state.lastFailureTime > timeout

\* C3: while the breaker is HALF_OPEN at most one call is admitted until that
\* call's outcome has been recorded.
C3_SingleProbe ==
    Cardinality({c \in Calls : calls[c].pc = "awaiting" /\ calls[c].admitted = "HALF_OPEN"}) <= 1

\* C4: a HALF_OPEN breaker returns to CLOSED exactly when successThreshold
\* successes have been recorded since it entered HALF_OPEN (a failure would
\* have opened it); on closing, failures and successCount are both 0; fewer
\* successes leave it HALF_OPEN.  (reset() is the one other way to CLOSED.)
C4_ClosesAfterSuccesses ==
    /\ state.status = "HALF_OPEN" => hoSucc < successThreshold
    /\ (last.op = "settleOk" /\ last.pre.status = "HALF_OPEN") =>
          IF hoSucc >= successThreshold
          THEN state.status = "CLOSED" /\ state.failures = 0 /\ state.successCount = 0
          ELSE state.status = "HALF_OPEN"
    /\ (last.pre.status = "HALF_OPEN" /\ state.status = "CLOSED" /\ last.op # "reset") =>
          last.op = "settleOk" /\ hoSucc = successThreshold

\* C4 witness: the second success of a HALF_OPEN period has closed the breaker.
C4_Witness ==
    /\ last.op = "settleOk"
    /\ last.pre.status = "HALF_OPEN"
    /\ last.pre.failures >= failureThreshold
    /\ state.status = "CLOSED"
    /\ hoSucc = successThreshold

\* C5: in every reachable HALF_OPEN state one recorded failure moves the
\* breaker to OPEN at once, whatever successes were counted; and every
\* HALF_OPEN period starts with a success counter of 0.
C5_HalfOpenFailureOpens ==
    /\ (last.op = "settleFail" /\ last.pre.status = "HALF_OPEN") => state.status = "OPEN"
    /\ state.status = "HALF_OPEN" => recordFailure(state, now).status = "OPEN"
    /\ (last.pre.status # "HALF_OPEN" /\ state.status = "HALF_OPEN") => state.successCount = 0

\* C5 witness: a HALF_OPEN period that had counted a success ended in a
\* failure, and the next HALF_OPEN period has begun.
C5_Witness ==
    /\ last.pre.status = "OPEN"
    /\ last.pre.successCount = 1
    /\ state.status = "HALF_OPEN"

\* C6: when the breaker reports open, execute() does not invoke fn and changes
\* nothing on the breaker: it gives the fallback's result if there is a
\* fallback and the circuit-open error otherwise.  When fn was invoked and
\* failed, execute() gives the fallback's result if there is a fallback and
\* fn's own error otherwise.
FallbackResults == {"fallbackValue", "fallbackError"}

C6_ExecuteFallback ==
    /\ (last.op = "execute" /\ last.pre.status = "OPEN"
            /\ now - last.pre.lastFailureTime <= timeout) =>
          /\ ~last.invoked
          /\ calls[last.call].pc = "idle"
          /\ state = last.pre
          /\ last.recorded = <<>>
          /\ last.result \in (IF last.fallback THEN FallbackResults ELSE {"CircuitOpenError"})
    /\ last.op = "settleFail" =>
          /\ last.invoked
          /\ last.result \in (IF last.fallback THEN FallbackResults ELSE {"fnError"})

\* C6 witness: an execute() with a fallback was short-circuited by the open
\* breaker and resolved with the fallback's value.
C6_Witness ==
    /\ last.op = "execute"
    /\ last.ret
    /\ last.fallback
    /\ last.result = "fallbackValue"

\* C7 as claimed: a success while CLOSED zeroes the failure counter, so that the
\* breaker opens from CLOSED only on failureThreshold failures with no success
\* between them; a success while HALF_OPEN increments the success counter by
\* one; a success while OPEN changes nothing.
C7_SuccessWhileClosedResets ==
    /\ (last.op = "settleOk" /\ last.pre.status = "CLOSED") =>
          state = [last.pre EXCEPT !.failures = 0]
    /\ (last.pre.status = "CLOSED" /\ state.status = "OPEN") =>
          last.op = "settleFail" /\ run = failureThreshold
    /\ (last.op = "settleOk" /\ last.pre.status = "OPEN") => state = last.pre

C7_AsClaimed ==
    /\ C7_SuccessWhileClosedResets
    /\ (last.op = "settleOk" /\ last.pre.status = "HALF_OPEN") =>
          state.successCount = last.pre.successCount + 1

\* C7 as amended: a success while HALF_OPEN increments the success counter by
\* one when the count stays below successThreshold; the success that reaches
\* successThreshold closes the breaker, which leaves the counter at 0.
C7_Amended ==
    /\ C7_SuccessWhileClosedResets
    /\ (last.op = "settleOk" /\ last.pre.status = "HALF_OPEN") =>
          IF last.pre.successCount + 1 < successThreshold
          THEN state = [last.pre EXCEPT !.successCount = @ + 1]
          ELSE state.status = "CLOSED" /\ state.successCount = 0

\* C7 witness: a success recorded after failureThreshold - 1 failures has put
\* the CLOSED breaker's failure counter back to 0.
C7_Witness ==
    /\ last.op = "settleOk"
    /\ last.pre.status = "CLOSED"
    /\ last.pre.failures = failureThreshold - 1
    /\ state.failures = 0
    /\ state.status = "CLOSED"

\* C8: every execute() that invoked fn records exactly one outcome, a success
\* or else a failure, also when the fallback is run or fails; an execute() cut
\* short by the open breaker, or still awaiting fn, has recorded none.
C8_OneOutcomePerCall ==
    /\ last.op = "settleOk" => last.recorded = <<"S">> /\ state = recordSuccess(last.pre)
    /\ last.op = "settleFail" => last.recorded = <<"F">> /\ state = recordFailure(last.pre, now)
    /\ last.op = "execute" =>
          /\ last.recorded = <<>>
          /\ state.failures = last.pre.failures
          /\ state.lastFailureTime = last.pre.lastFailureTime
          /\ (last.ret => state = last.pre)

\* C8 witness: fn failed, the fallback failed too, and one failure is recorded.
C8_Witness ==
    /\ last.op = "settleFail"
    /\ last.result = "fallbackError"
    /\ last.recorded = <<"F">>
    /\ state.failures = last.pre.failures + 1

\* ---------------------------------------------------------------------
\* Claims about the RateLimiter (checked under SpecLimiter)
\* ---------------------------------------------------------------------
\* the time one token takes to refill
TokenTime == refillInterval \div refillRate

\* C9: for a fresh client key and with no time elapsing, the calls of
\* allowRequest return true until `capacity` of them have, and false from then
\* on; TokenTime after such a burst exactly one further call returns true and
\* the call after it returns false.
C9_BurstThenOneToken ==
    \A k \in Clients :
        /\ (created[k] = -1 \/ created[k] = now) =>
              (allowRequest(buckets, k, now).ret <=> granted[k] < capacity)
        /\ (drained[k] /\ now = created[k] + TokenTime) =>
              (allowRequest(buckets, k, now).ret <=> granted[k] = capacity)

\* C9 witness: capacity calls were granted at once, and TokenTime later one
\* more has been.
C9_Witness ==
    \E k \in Clients :
        /\ drained[k]
        /\ now = created[k] + TokenTime
        /\ granted[k] = capacity + 1
        /\ buckets[k].tokens = 0

\* C10: allowRequest(key) refills the bucket to
\* min(capacity, tokens + (now - lastRefillTime) / refillInterval * refillRate)
\* and sets lastRefillTime to now; it returns true and takes exactly one token
\* iff the refilled count is at least 1, and otherwise returns false and leaves
\* the bucket as the refill left it; the buckets of other keys stay as they are.
\* (A step that changes a bucket without deleting it is an allowRequest call;
\* it returned true iff the client's count of granted calls went up.)
AllowRequestEffect(k) ==
    LET fresh == buckets[k] = NoBucket
        tokens == IF fresh THEN capacity * TokenUnit ELSE buckets[k].tokens
        lastRefill == IF fresh THEN now ELSE buckets[k].lastRefillTime
        refilled == Min(capacity * TokenUnit,
                        tokens + ((now - lastRefill) * refillRate * TokenUnit) \div refillInterval)
        before == IF fresh THEN 0 ELSE granted[k]
        ret == granted'[k] = before + 1
    IN  /\ buckets'[k].lastRefillTime = now
        /\ granted'[k] \in {before, before + 1}
        /\ ret <=> refilled >= TokenUnit
        /\ buckets'[k].tokens = IF ret THEN refilled - TokenUnit ELSE refilled
        /\ \A j \in Clients \ {k} : buckets'[j] = buckets[j]

C10_AllowRequestEffect ==
    [][\A k \in Clients :
          (buckets'[k] # buckets[k] /\ buckets'[k] # NoBucket) => AllowRequestEffect(k)]_vars

\* C10 witness: a call found half a token after the refill and was refused,
\* leaving the half token, while the bystander's bucket exists.
C10_Witness ==
    /\ buckets["c1"].tokens = TokenUnit \div 2
    /\ buckets["c1"].lastRefillTime = now
    /\ granted["c1"] = capacity
    /\ buckets[Bystander] # NoBucket

\* C11: getRetryAfter(key) returns 0 when the key has no bucket and 0 whenever
\* the bucket holds at least one token; it is never negative; and it leaves
\* the buckets as they are.
C11_RetryAfterZeroWhenAvailable ==
    /\ \A k \in Clients :
          /\ getRetryAfter(buckets, k) >= 0
          /\ buckets[k] = NoBucket => getRetryAfter(buckets, k) = 0
          /\ (buckets[k] # NoBucket /\ buckets[k].tokens >= TokenUnit) =>
                getRetryAfter(buckets, k) = 0
    /\ retryAfter.called => retryAfter.value >= 0
    /\ (retryAfter.called /\ buckets[retryAfter.key] # NoBucket
            /\ buckets[retryAfter.key].tokens >= TokenUnit) => retryAfter.value = 0

\* C12: whatever the interleaving of allowRequest calls on one key (each call
\* runs to its end before the next starts: the method has no await), the
\* calls granted by time t number at most
\* capacity + (t - t0) / refillInterval * refillRate, t0 being the time the
\* bucket was created; the tokens still in the bucket count against the same
\* bound, and a bucket never holds a negative count.
C12_NoDoubleSpend ==
    \A k \in Clients :
        buckets[k] # NoBucket =>
            /\ granted[k] * TokenUnit <= capacity * TokenUnit + (now - created[k]) * refillRate
            /\ granted[k] * TokenUnit + buckets[k].tokens
                   <= capacity * TokenUnit + (buckets[k].lastRefillTime - created[k]) * refillRate
            /\ buckets[k].tokens >= 0

\* C12 witness: capacity + 1 calls were granted within three clock steps of
\* the bucket's creation, a later call was refused, and half a token is left.
C12_Witness ==
    \E k \in Clients :
        /\ granted[k] = capacity + 1
        /\ now - created[k] = 3 * RefillStep
        /\ buckets[k].lastRefillTime = now
        /\ buckets[k].tokens = TokenUnit \div 2
        /\ retryAfter.called /\ retryAfter.key = k

\* ---------------------------------------------------------------------
\* Claims about retry() (checked under SpecRetry)
\* ---------------------------------------------------------------------
\* C13: retry calls fn at most maxAttempts times, and exactly k times when the
\* k-th call is the first to succeed, whose value it returns; it ends only on
\* a success or after maxAttempts calls, whatever the errors were; when all
\* maxAttempts calls failed it fails with the error of the last one.
C13_RetryUntilSuccessOrExhausted ==
    LET n == Len(rt.outcomes) IN
    /\ rt.pc # "idle" => n <= rt.maxAttempts
    /\ rt.pc = "returned" =>
          /\ rt.outcomes[n].ok
          /\ \A i \in 1..(n - 1) : ~rt.outcomes[i].ok
          /\ rt.result = [kind |-> "value", value |-> rt.outcomes[n].value]
    /\ rt.pc \in {"returned", "thrown"} => (rt.outcomes[n].ok \/ n = rt.maxAttempts)
    /\ rt.pc = "thrown" =>
          /\ n = rt.maxAttempts
          /\ \A i \in 1..n : ~rt.outcomes[i].ok
          /\ rt.result = [kind |-> "error", value |-> rt.outcomes[n].value]

\* C14: after the failed call number a that is not the last, onRetry (when
\* there is one) is called once with (a, the error) and one timer of
\* delay * backoff^(a-1) is set before call a + 1; the waits are equal for
\* backoff 1 and strictly increasing for backoff > 1; after the last failed
\* call there is neither an onRetry call nor a timer.
C14_ObserverAndBackoff ==
    LET n == Len(rt.outcomes)
        failedNotLast == {i \in 1..n : ~rt.outcomes[i].ok /\ i < rt.maxAttempts}
        nw == Len(rt.waits)
    IN
    /\ nw = Cardinality(failedNotLast)
    /\ \A a \in 1..nw :
          rt.waits[a] = Or(rt.options.delay, defaultDelay)
                          * Pow(Or(rt.options.backoff, defaultBackoff), a - 1)
    /\ rt.options.onRetry =>
          /\ Len(rt.observed) = nw
          /\ \A a \in 1..nw : rt.observed[a] = <<a, rt.outcomes[a].value>>
    /\ ~rt.options.onRetry => rt.observed = <<>>
    /\ rt.backoff = 1 => \A a \in 1..nw : rt.waits[a] = rt.delay
    /\ rt.backoff > 1 => \A a \in 1..(nw - 1) : rt.waits[a] < rt.waits[a + 1]
    /\ rt.pc = "calling" => nw = rt.attempt - 1 /\ n = nw
    /\ rt.pc = "thrown" => nw = rt.maxAttempts - 1

\* C14 witness: three calls failed under delay 500 and backoff 2; onRetry saw
\* the first two errors, and the timers were 500 and 1000.
C14_Witness ==
    /\ rt.pc = "thrown"
    /\ rt.options.maxAttempts = 3
    /\ rt.options.onRetry
    /\ rt.waits = <<500, 1000>>
    /\ rt.observed = <<<<1, "NetworkError">>, <<2, "ValidationError">>>>
    /\ rt.outcomes[3].value = "NetworkError"

\* ---------------------------------------------------------------------
\* Claims about the providers and the aggregator (checked under SpecAggregator)
\* ---------------------------------------------------------------------
Failures == HttpOutcomes \ {"ok"}
\* which quote an element is: the provider's place and the place in its answer
Id(q) == <<q.platform, q.index>>
Ids(xs) == {Id(xs[i]) : i \in 1..Len(xs)}
\* the place of a quote in the concatenated provider input
Before(a, b) ==
    \/ a.platform < b.platform
    \/ a.platform = b.platform /\ a.index < b.index
Ranked(xs) ==
    \A i, j \in 1..Len(xs) : i < j => xs[i].effectivePrice <= xs[j].effectivePrice
\* the quotes of the providers whose search succeeded
Merged == flatMap(agg.results, 1, agg.n)
ETA(q) == parseInt(q.deliveryETA).n

\* C15: the search of a provider service never rejects: when its HTTP call
\* fails or times out, or mapping the payload fails, the promise is fulfilled
\* with an empty list.
C15_SearchAbsorbsErrors ==
    \A p \in 1..agg.n :
        agg.results[p].by = "search" =>
            /\ agg.results[p].status = "fulfilled"
            /\ agg.results[p].cause \in Failures => agg.results[p].value = <<>>

\* C15 witness: a provider's HTTP call timed out, its search was fulfilled
\* with no quotes, and searchAll() returned the other provider's quotes.
C15_Witness ==
    /\ agg.pc = "done"
    /\ agg.n = 2
    /\ agg.results[1].cause = "timeout"
    /\ agg.results[1].status = "fulfilled"
    /\ agg.results[1].value = <<>>
    /\ agg.result.status = "returned"
    /\ Len(agg.result.value) = 2

\* C16: whatever the providers and whichever of them fail, searchAll() does
\* not raise and returns exactly the quotes of the providers that succeeded,
\* none lost, none twice, none of a failed provider, ranked by effective price.
C16_UnionOfSucceeding ==
    agg.pc = "done" =>
        /\ agg.result.status = "returned"
        /\ Ids(agg.result.value) = Ids(Merged)
        /\ Len(agg.result.value) = Len(Merged)
        /\ \A i \in 1..Len(agg.result.value) :
              agg.results[agg.result.value[i].platform].status = "fulfilled"
        /\ Ranked(agg.result.value)

\* C17: when the merged quote set is empty, searchAll() returns an empty list
\* without raising, and a GET request that made the call is answered with
\* success and an empty result list.
C17_EmptyIsNotAnError ==
    (agg.pc = "done" /\ Merged = <<>>) =>
        /\ agg.result = [status |-> "returned", value |-> <<>>]
        /\ agg.caller = "GET" =>
              agg.response = [status |-> 200, success |-> TRUE, results |-> <<>>]

\* C18: the list searchAll() returns is in ascending order of effective price,
\* and quotes of equal effective price stand in the order of the concatenated
\* provider input.
C18_StableAscending ==
    (agg.pc = "done" /\ agg.result.status = "returned") =>
        LET xs == agg.result.value IN
        /\ Ranked(xs)
        /\ \A i, j \in 1..Len(xs) :
              (i < j /\ xs[i].effectivePrice = xs[j].effectivePrice) => Before(xs[i], xs[j])

\* C18 witness: the first provider answered a dearer quote and then a cheaper
\* one, the second provider a quote as cheap; the result has the first
\* provider's cheap quote, then the second provider's, then the dear one.
C18_Witness ==
    /\ agg.pc = "done"
    /\ agg.result.status = "returned"
    /\ Len(agg.result.value) = 3
    /\ Id(agg.result.value[1]) = <<1, 2>>
    /\ Id(agg.result.value[2]) = <<2, 1>>
    /\ Id(agg.result.value[3]) = <<1, 1>>
    /\ agg.result.value[1].effectivePrice = agg.result.value[2].effectivePrice
    /\ agg.result.value[2].effectivePrice < agg.result.value[3].effectivePrice

\* C19: in every non-empty list searchAll() returns the first element has the
\* cheapest flag and badge, at most one element has the fastest flag or
\* badge, and no element has both the fastest and the cheapest mark.
C19_BadgeInvariant ==
    (agg.pc = "done" /\ agg.result.status = "returned" /\ agg.result.value # <<>>) =>
        LET xs == agg.result.value
            marked == {i \in 1..Len(xs) : xs[i].isFastest \/ xs[i].badge = "Fastest"}
        IN
        /\ xs[1].isCheapest /\ xs[1].badge = "Cheapest"
        /\ Cardinality(marked) <= 1
        /\ \A i \in marked :
              /\ xs[i].isFastest /\ xs[i].badge = "Fastest"
              /\ ~xs[i].isCheapest
              /\ i # 1

\* C19 witness: two providers answered 245 at "30 min" and 255 at
\* "10-15 min"; the result is [245, 255], the first marked cheapest and the
\* second fastest.
C19_Witness ==
    /\ agg.pc = "done"
    /\ agg.result.status = "returned"
    /\ Len(agg.result.value) = 2
    /\ agg.result.value[1].platform # agg.result.value[2].platform
    /\ agg.result.value[1].effectivePrice = 245
    /\ agg.result.value[2].effectivePrice = 255
    /\ ETA(agg.result.value[1]) = 30
    /\ ETA(agg.result.value[2]) = 10
    /\ agg.result.value[1].badge = "Cheapest"
    /\ agg.result.value[2].badge = "Fastest"
    /\ agg.result.value[2].isFastest

\* C20: the fastest element is the earliest element of the returned list
\* whose delivery ETA (the leading integer of the text) is the least of the
\* list; it is marked fastest iff it is not the first element, and no other
\* element is ever marked: when the first element attains the least ETA no
\* element is marked fastest.
C20_FastestIsMinETA ==
    (agg.pc = "done" /\ agg.result.status = "returned" /\ agg.result.value # <<>>) =>
        LET xs == agg.result.value
            least == {i \in 1..Len(xs) : \A j \in 1..Len(xs) : ETA(xs[i]) <= ETA(xs[j])}
            f == CHOOSE i \in least : \A j \in least : i <= j
        IN
        /\ \A i \in 1..Len(xs) : xs[i].isFastest <=> (i = f /\ f # 1)
        /\ \A i \in 1..Len(xs) : xs[i].badge = "Fastest" <=> (i = f /\ f # 1)

\* C20 witness: the cheapest quote and a dearer one both have the least ETA,
\* a third quote is slower, and no element is marked fastest.
C20_Witness ==
    /\ agg.pc = "done"
    /\ agg.result.status = "returned"
    /\ Len(agg.result.value) = 3
    /\ ETA(agg.result.value[1]) = 10
    /\ ETA(agg.result.value[2]) = 30
    /\ ETA(agg.result.value[3]) = 10
    /\ agg.result.value[1].effectivePrice < agg.result.value[3].effectivePrice
    /\ \A i \in 1..3 : ~agg.result.value[i].isFastest

\* C21: a second searchAll() call with the same providers answering as in
\* the first gives the same list in the same order with the same marks,
\* in whatever order the searches settle in either call, and also when the
\* providers hand over the quote objects the first call has marked.
C21_Deterministic ==
    (agg.run = 2 /\ agg.pc = "done") => agg.result = agg.first

\* C21 witness: the second call was given the marked objects of the first,
\* both providers answered, and it returned the same list with a cheapest
\* and a fastest element.
C21_Witness ==
    /\ agg.run = 2
    /\ agg.pc = "done"
    /\ agg.sameObjects
    /\ agg.n = 2
    /\ agg.responses[1].value # <<>>
    /\ agg.responses[2].value # <<>>
    /\ agg.result = agg.first
    /\ agg.result.status = "returned"
    /\ \E i \in 2..Len(agg.result.value) : agg.result.value[i].isFastest

\* C22: searchAll() starts the search of every provider before it waits, and
\* it joins them all: while a started search is pending it has neither
\* returned nor raised, also when another search has already rejected, and
\* when it is done every search has settled.
C22_FullJoin ==
    /\ agg.pc # "idle" => agg.started = 1..agg.n
    /\ (\E p \in agg.started : agg.results[p].status = "pending") =>
            (agg.pc = "searching" /\ agg.result.status = "none")
    /\ agg.pc = "done" =>
            \A p \in 1..agg.n : agg.results[p].status \in {"fulfilled", "rejected"}

\* C22 witness: one search rejected, the call went on waiting for the other
\* and then returned that one's quotes.
C22_Witness ==
    /\ agg.pc = "done"
    /\ agg.run = 1
    /\ agg.started = {1, 2}
    /\ agg.results[1].status = "rejected"
    /\ agg.results[2].status = "fulfilled"
    /\ agg.results[2].value # <<>>
    /\ agg.result.status = "returned"
    /\ Len(agg.result.value) = Len(agg.results[2].value)

\* every started search has settled and searchAll() has returned or raised
Finished == agg.pc = "done"

\* the call is not held up: a searchAll() call that waits for its providers
\* finishes, whether or not an upstream ever answers
EventuallyFinished == (agg.pc = "searching") ~> Finished

\* C23: a searchAll() call that waits for its providers eventually returns
\* the quotes of the providers that answered, also when the upstream of a
\* provider never answers and its request is given up at the timeout.
C23_SlowProviderCannotBlock ==
    (agg.pc = "searching") ~>
        /\ Finished
        /\ agg.result.status = "returned"
        /\ Ids(agg.result.value) = Ids(Merged)

MassVolume == {"g", "kg", "ml", "l"}
InBase(unit) == IF unit \in {"kg", "l"} THEN 1000 ELSE 1

\* C24: for a quote in g, kg, ml or l the base quantity is the quantity in
\* grams or millilitres and the price per unit is price / (baseQuantity / 100);
\* for a count unit it is price / quantity; it is 0 whenever the divisor is
\* not positive.
C24_PricePerUnit ==
    pq.called /\ pq.unit \in Units =>
        LET divisor == IF pq.unit \in MassVolume
                       THEN Ratio(pq.quantity * InBase(pq.unit), 100)
                       ELSE Whole(pq.quantity)
        IN  /\ pq.unit \in MassVolume => pq.baseQuantity = pq.quantity * InBase(pq.unit)
            /\ SameNumber(pq.pricePerUnit,
                           IF Positive(divisor) THEN Over(pq.price, divisor) ELSE Whole(0))

\* the time in ms an entry asked for with this ttl option is to be kept
Kept(ttl) == (IF ttl = 0 THEN defaultTtl ELSE ttl) * 1000
\* the last set() under the key has not been undone and its time is not over at t
Live(e, t) == e.present /\ t <= e.at + Kept(e.ttl)

\* C26: a get(key) made while the time of the latest set(key, v, ttl) is not
\* over returns that v and leaves the Map as it is; a get(key) made after it
\* returns a miss and leaves the Map without the entry for key and otherwise
\* as it is; the passing of time alone removes nothing from the Map.
C26_LazyExpiry ==
    [][ /\ cs'.op.name = "get" =>
             LET k == cs'.op.key
                 e == cs.latest[k]
             IN  IF Live(e, now)
                 THEN /\ cs'.op.returned = e.value
                      /\ cs'.cache = cs.cache
                      /\ cs.cache[k].present
                 ELSE /\ cs'.op.returned = "null"
                      /\ cs'.cache = [cs.cache EXCEPT ![k] = Absent]
        /\ now' # now => cs'.cache = cs.cache
      ]_vars

\* C26 witness: the key was last set at time 1000, with v1 for one second;
\* read after 2000 it gave a miss and its entry is gone, while
\* the entry of the other key, as long expired, is still in the Map.
C26_Witness ==
    /\ cs.op = [name |-> "get", key |-> Key, returned |-> "null"]
    /\ cs.latest[Key] = [present |-> TRUE, value |-> "v1", ttl |-> 1, at |-> 1000]
    /\ now > 2000
    /\ ~cs.cache[Key].present
    /\ \E k \in StoreKeys \ {Key} : cs.cache[k].present /\ now > cs.cache[k].expires

\* C29: a getOrSet(key, compute2, options) call made while the entry that an
\* earlier, completed getOrSet(key, compute, options) call stored is not yet
\* expired returns the value of that call and does not invoke compute2.
C29_GetOrPopulate ==
    [][ cs'.op.name = "getOrSet" =>
            LET e == cs.latest[finalKey(cs'.call.namespace, Key)]
            IN  (Live(e, now) /\ e.ttl = cs'.call.ttl) =>
                    /\ cs'.call.pc = "done"
                    /\ cs'.call.returned = e.value
                    /\ ~cs'.call.invoked
      ]_vars

\* the integer nearest to a coordinate given in tenths of a degree (a half
\* counts for the integer above, as Math.round has it)
Nearest(tenths) == CHOOSE n \in -200..200 : 10 * n - 5 <= tenths /\ tenths < 10 * n + 5

\* C27: two validated search requests get the same cache key iff their
\* queries are equal and their latitudes and their longitudes each round to
\* the same integer, whatever their pincodes and the fractions of their
\* coordinates; the second request is served what was stored for the first
\* exactly in that case.
C27_CacheKey ==
    ck.called =>
        LET same == /\ ck.a.q = ck.b.q
                    /\ Nearest(ck.a.lat) = Nearest(ck.b.lat)
                    /\ Nearest(ck.a.lng) = Nearest(ck.b.lng)
        IN  /\ ck.keyA = ck.keyB <=> same
            /\ ck.served <=> same

\* C27 witness: two requests with the same query, one at (-0.5, -1.5) without
\* a pincode and one at (0.4, -1.4) with one, share a key and the entry.
C27_Witness ==
    /\ ck.called
    /\ ck.a.q = ck.b.q
    /\ ck.a.lat = -5 /\ ck.b.lat = 4
    /\ ck.a.lng = -15 /\ ck.b.lng = -14
    /\ ck.a.pincode # ck.b.pincode
    /\ ck.keyA = ck.keyB
    /\ ck.keyA = <<"s", "e", "a", "r", "c", "h", ":">> \o ck.a.q \o <<":", "0", ":", "-", "1">>
    /\ ck.served

\* the entry a request that missed is to leave under its key
EntryOf(rq) == [key |-> rq.key, data |-> rq.response.results, ttl |-> searchTtl]
\* two requests for one key are both past their miss, their aggregations running
TwoInFlight ==
    /\ srv.req["r1"].pc = "aggregating"
    /\ srv.req["r2"].pc = "aggregating"
    /\ srv.req["r1"].key = srv.req["r2"].key

\* C28: when two requests for the same key have both missed before either
\* has stored, each has started an aggregation of its own, and each one that
\* ends returns the value it computed and leaves that value as the entry of
\* the key, so that the entry is that of the set made last.
C28_NotSingleFlight ==
    [][ TwoInFlight =>
            /\ \A r \in Requests : srv.req[r].searches = 1
            /\ \A r \in Requests :
                  srv'.req[r].pc = "done" =>
                      /\ srv'.req[r].response.success
                      /\ srv'.req[r].response.results # "none"
                      /\ EntryOf(srv'.req[r]) \in srv'.store
      ]_vars

\* C30: a valid request that finds its key in the cache is answered with the
\* cached data and cacheHit = true without a searchAll() call; one that does
\* not calls searchAll() once, and is answered with the response made from
\* the result, cacheHit = false, after that response has been stored under
\* the request's key for 600 s.
C30_ControlFlow ==
    [][ \A r \in Requests :
          LET before == srv.req[r]
              after == srv'.req[r]
              cached == redisGet(srv.store, before.key)
          IN  /\ (before.pc = "lookup" /\ after.pc # "lookup") =>
                    IF cached # "null"
                    THEN /\ after.pc = "done"
                         /\ after.searches = 0
                         /\ after.response = [status |-> 200, success |-> TRUE,
                                               results |-> cached, cacheHit |-> "true"]
                    ELSE after.pc = "aggregating" /\ after.searches = 1
              /\ (before.pc = "aggregating" /\ after.pc = "done") =>
                    /\ after.searches = 1
                    /\ after.response.status = 200
                    /\ after.response.success
                    /\ after.response.cacheHit = "false"
                    /\ EntryOf(after) \in srv'.store
      ]_vars

\* ---------------------------------------------------------------------
\* Claims about validation and failures in the search route (SpecSearch)
\* ---------------------------------------------------------------------
\* a request the contract calls invalid: no query or one shorter than two
\* characters, a latitude outside [-90, 90], a longitude outside [-180, 180]
Rejectable(p) ==
    \/ p.q = <<>>
    \/ Len(p.q[1]) < 2
    \/ p.lat < -900 \/ p.lat > 900
    \/ p.lng < -1800 \/ p.lng > 1800

\* C31: a request with an invalid input (query missing or shorter than 2
\* characters, latitude or longitude out of range) has ended in an error
\* response without a call of the cache or of the aggregator.
C31_InvalidRejected ==
    \A r \in Requests :
        LET q == srv.req[r] IN
        (q.pc # "idle" /\ Rejectable(q.input)) =>
            /\ q.pc = "done"
            /\ q.lookups = 0
            /\ q.searches = 0
            /\ q.response.status \in {400, 500}
            /\ ~q.response.success

\* C31 witness: a GET with a latitude out of range was answered 400 and a
\* POST without a query 500, neither having reached the cache.
C31_Witness ==
    /\ srv.req["r1"].method = "GET" /\ srv.req["r1"].input.lat > 900
    /\ srv.req["r1"].input.q = <<<<"a", "b">>>> /\ srv.req["r1"].input.lng = -15
    /\ srv.req["r1"].response.status = 400 /\ srv.req["r1"].lookups = 0
    /\ srv.req["r2"].method = "POST" /\ srv.req["r2"].input.q = <<>>
    /\ srv.req["r2"].response.status = 500 /\ srv.req["r2"].lookups = 0

\* C32: a GET request with a valid query, latitude and longitude and no
\* pincode passes validation and reaches the cache lookup.
C32_PincodeOptional ==
    \A r \in Requests :
        LET q == srv.req[r] IN
        (q.pc # "idle" /\ q.method = "GET" /\ ~Rejectable(q.input)
             /\ q.input.pincode = "absent") =>
            /\ q.lookups = 1
            /\ q.response.status # 400

\* C39: a request that ends in an error (validation failed, or searchAll()
\* raised) leaves the cache exactly as it was in the step that answers it;
\* every entry and every cache hit carries results, never an error.
C39_FailuresNotCached ==
    [][ /\ \A r \in Requests :
              (srv'.req[r] # srv.req[r] /\ srv'.req[r].pc = "done"
                   /\ srv'.req[r].response.status # 200) =>
                  srv'.store = srv.store
        /\ \A e \in srv'.store : e.data \in {"quotes", "[]"}
        /\ \A r \in Requests :
              srv'.req[r].response.cacheHit = "true" =>
                  /\ srv'.req[r].response.success
                  /\ srv'.req[r].response.results \in {"quotes", "[]"}
      ]_vars

\* C39 witness: r1 missed, called searchAll() and was answered 500; r2 failed
\* validation; the cache holds an entry of another key and none of r1's key.
C39_Witness ==
    /\ srv.req["r1"].pc = "done" /\ srv.req["r1"].searches = 1
    /\ srv.req["r1"].response.status = 500
    /\ srv.req["r2"].pc = "done" /\ srv.req["r2"].lookups = 0
    /\ srv.req["r2"].response.status = 400
    /\ srv.store # {}
    /\ \A e \in srv.store : e.key # srv.req["r1"].key

\* ---------------------------------------------------------------------
\* Further claims about the RateLimiter (checked under SpecLimiter)
\* ---------------------------------------------------------------------
\* C33: every bucket holds at least 0 and at most `capacity` tokens, and a
\* bucket starts with exactly `capacity`: as long as no time has passed since
\* it was created, what it holds and what its granted calls took add up to
\* `capacity`.
C33_TokensInRange ==
    \A k \in Clients :
        buckets[k] # NoBucket =>
            /\ buckets[k].tokens >= 0
            /\ buckets[k].tokens <= capacity * TokenUnit
            /\ created[k] = now =>
                  buckets[k].tokens = (capacity - granted[k]) * TokenUnit

\* C33 witness: one bucket was emptied at the instant it was created, and
\* another's refill was cut at the capacity before its second call took a token.
C33_Witness ==
    /\ buckets["c1"] # NoBucket /\ buckets["c1"].tokens = 0
    /\ created["c1"] = now /\ granted["c1"] = capacity
    /\ buckets[Bystander] # NoBucket
    /\ granted[Bystander] = 2
    /\ buckets[Bystander].lastRefillTime >= created[Bystander] + 3 * RefillStep
    /\ buckets[Bystander].tokens = (capacity - 1) * TokenUnit

\* C34: an estimate given for a bucket that holds less than one token, as
\* the bucket of a call just refused does, is at least one second, and the
\* allowRequest call made that many seconds later, the bucket not having
\* been touched in between, returns true.
C34_RetryAfterSuffices ==
    (retryAfter.called /\ buckets[retryAfter.key] # NoBucket
         /\ buckets[retryAfter.key].tokens < TokenUnit) =>
        /\ retryAfter.value > 0
        /\ retryAfter.value = getRetryAfter(buckets, retryAfter.key)
        /\ allowRequest(buckets, retryAfter.key, now + retryAfter.value * 1000).ret

\* C34 witness: a call was refused just now, leaving half a token, and the
\* 429 answer carries the estimate.
C34_Witness ==
    /\ retryAfter.called /\ retryAfter.key = "c1"
    /\ buckets["c1"].lastRefillTime = now
    /\ buckets["c1"].tokens = TokenUnit \div 2
    /\ granted["c1"] > capacity
    /\ retryAfter.value = 1

\* ---------------------------------------------------------------------
\* Further claims about the CircuitBreaker
\* ---------------------------------------------------------------------
\* C35: after every sequence of isOpen, recordSuccess, recordFailure, execute
\* and reset calls the breaker is CLOSED exactly when its failure counter is
\* below failureThreshold; its success counter is below successThreshold, and
\* 0 while the breaker is CLOSED.
C35_StatusAndCounters ==
    /\ state.status = "CLOSED" <=> state.failures < failureThreshold
    /\ state.successCount >= 0 /\ state.successCount < successThreshold
    /\ state.status = "CLOSED" => state.successCount = 0

\* C35 witness: a failure recorded while HALF_OPEN, one success having been
\* counted, has opened the breaker again with its counters above the
\* threshold and at 1.
C35_Witness ==
    /\ last.op = "recordFailure"
    /\ last.pre.status = "HALF_OPEN"
    /\ state.status = "OPEN"
    /\ state.failures = failureThreshold + 1
    /\ state.successCount = 1

\* C36: the success of a call that was admitted while the breaker was still
\* CLOSED, arriving while the breaker is HALF_OPEN, is not counted towards
\* successThreshold and does not close the breaker.
C36_OnlyProbesCount ==
    [][ \A c \in Calls :
          (calls[c].pc = "awaiting" /\ calls'[c].pc = "idle"
               /\ calls[c].admitted = "CLOSED" /\ state.status = "HALF_OPEN") =>
              /\ state'.successCount = state.successCount
              /\ state'.status # "CLOSED"
      ]_vars

\* the model's clock can still pass the cool-down of the last failure
CoolDownInReach == state.lastFailureTime + timeout + TimeStep <= MaxTimeouts * timeout

\* a query has just found the cool-down over: HALF_OPEN, not reported open
Probing ==
    /\ state.status = "HALF_OPEN"
    /\ last.op \in Queries
    /\ last.pre.status = "OPEN"
    /\ ~last.ret

\* C37: with time advancing and queries going on, an OPEN breaker becomes
\* HALF_OPEN through a query that is not reported open (unless reset() closes
\* it, or a failure recorded meanwhile moves the cool-down beyond the clock of
\* the model); the cool-down runs from the failure recorded last: a recorded
\* failure leaves lastFailureTime = now, and a query of an OPEN breaker
\* reports open as long as no more than `timeout` has passed since.
C37_OpenNotForever ==
    /\ [](("F" \in {last.recorded[i] : i \in DOMAIN last.recorded}) =>
             state.lastFailureTime = now)
    /\ []((last.op \in Queries /\ last.pre.status = "OPEN") =>
             (last.ret <=> now - last.pre.lastFailureTime <= timeout))
    /\ (state.status = "OPEN" /\ CoolDownInReach) ~>
           (Probing \/ last.op = "reset" \/ (state.status = "OPEN" /\ ~CoolDownInReach))

\* C37 witness: the breaker opened by time `timeout`, its sixth failure,
\* recorded while OPEN at `timeout`, restarted the cool-down, and an
\* execute() call two cool-downs later found it over and was admitted.
C37_Witness ==
    /\ last.op = "execute" /\ Probing
    /\ last.pre.failures = failureThreshold + 1
    /\ last.pre.lastFailureTime = timeout
    /\ now = 3 * timeout
    /\ \E c \in Calls : calls[c].pc = "awaiting" /\ calls[c].admitted = "HALF_OPEN"

\* ---------------------------------------------------------------------
\* Claims about the middleware's breaker (checked under SpecMiddleware)
\* ---------------------------------------------------------------------
\* C38: whatever requests pass circuitBreakerMiddleware and however they
\* end, the module-level breaker is in its initial CLOSED state, the only
\* operation made on it is the isOpen() query, which returns false, and no
\* request is answered 503 by circuitBreakerMiddleware.
C38_MiddlewareBreakerStaysClosed ==
    /\ state = InitialState
    /\ last.op \in {"init", "isOpen", "clock"}
    /\ last.recorded = <<>>
    /\ ~last.ret
    /\ \A r \in Requests : mw[r].response.by # "circuitBreakerMiddleware"

\* C38 witness: a request ended in an error that errorHandler answered with
\* the error's own status 503, and two cool-downs later another request has
\* just passed the breaker.
C38_Witness ==
    /\ mw["r1"].response = [status |-> 503, by |-> "errorHandler"]
    /\ mw["r2"].pc = "next"
    /\ last.op = "isOpen" /\ ~last.ret
    /\ now >= 2 * timeout

\* ---------------------------------------------------------------------
\* Claims about the EventEmitter (checked under SpecEmitter)
\* ---------------------------------------------------------------------
\* the handlers of a list of entries, in order
RECURSIVE IdsOf(_)
IdsOf(entries) ==
    IF entries = <<>> THEN <<>> ELSE <<Head(entries).id>> \o IdsOf(Tail(entries))

\* C40: an emit() call during which nobody else called on, once or off has,
\* when it resolves, invoked the handlers that were registered when it was
\* called, each exactly once and in registration order, and the handlers
\* registered with on are still registered while those registered with once
\* are not.
C40_EmitInvokesAll ==
    em.pc = "done" =>
        /\ em.invoked = IdsOf(em.registered)
        /\ em.listeners = SelectSeq(em.registered, LAMBDA h : ~h.once)

====
